---- MODULE Spec2Model ----
(***************************************************************************)
(* Model of src/src/buf.rs: the thin buffer Buf (an in-band header of     *)
(* length and capacity-with-flag followed by the data bytes) and the       *)
(* thread-safe Pool that carves buffers out of one allocation and takes    *)
(* them back through a mutex-guarded stack of pointers.                    *)
(*                                                                         *)
(* Addresses.  A buffer pointer is <<region, index>>: region 0 is the      *)
(* global allocator (buffers made by Buf::new), region p >= 1 is the       *)
(* single allocation of pool p, index i its i-th buffer.  Pointers into    *)
(* the pointer array of a pool are offsets from pool_start, so pool_start  *)
(* is offset 0 and pool_end is offset pool_capacity.                       *)
(***************************************************************************)
EXTENDS Integers, Sequences, FiniteSets, TLC

\* ---------------------------------------------------------------- bounds
\* Threads that call into one pool concurrently.
NumThreads == 2
\* Largest pool_capacity passed to Pool::new.
MaxPoolCapacity == 2
\* Buffer capacities are CapacityAlign * (1 .. MaxCapUnits).
MaxCapUnits == 1
\* Buffers from the global allocator that are alive at the same time.
MaxHeap == 1
\* Every slice of at most this length over Bytes is appended.
MaxSliceLen == 2

\* The const generic C of the ArrayVec<T, C> under study.
ArrayVecCapacity == 3

\* The const generic L of the Buffer<L> under study.
BufferL == 8

\* ------------------------------------------------------ program constants
MAX_CAPACITY == 2147483647
\* A u32 header word is kept as <<bit 31, bits 0..30>>: 0x80000000 itself is
\* beyond the integers of the checker.
BUF_HDR_CAPACITY_POOLED_FLAG == <<1, 0>>
CapacityAlign == 8

Threads == 1 .. NumThreads
PoolIds == {1}

\* A byte that was allocated and never written.
Uninit == -1
\* The byte values the callers write.
Bytes == {0, 1}

Min(a, b) == IF a <= b THEN a ELSE b

\* ------------------------------------------------------------ Buf (pure)
\* The memory of one buffer: the hidden pointer to PoolInner that precedes
\* a pooled buffer (0 when there is none), the two header words and the data.
NoBuf == [pool_inner |-> 0, len |-> 0, cap |-> <<0, 0>>, data |-> << >>]

len(b) == b.len

\* w1 | w2 and w1 & w2 for a word w1 with bit 31 only or bits 0..30 only
BitOr(w1, w2) == <<IF w1[1] = 1 \/ w2[1] = 1 THEN 1 ELSE 0, w1[2] + w2[2]>>

BitAnd(w1, w2) ==
    <<IF w1[1] = 1 /\ w2[1] = 1 THEN 1 ELSE 0,
      IF w1[2] = MAX_CAPACITY THEN w2[2] ELSE IF w2[2] = MAX_CAPACITY THEN w1[2] ELSE 0>>

capacity(b) == BitAnd(b.cap, <<0, MAX_CAPACITY>>)[2]

IsPooled(b) == BitAnd(b.cap, BUF_HDR_CAPACITY_POOLED_FLAG) # <<0, 0>>

as_slice(b) == SubSeq(b.data, 1, b.len)

\* assert!() of Buf::new
BufNewOk(buf_capacity) ==
    /\ buf_capacity <= MAX_CAPACITY
    /\ buf_capacity > 0
    /\ buf_capacity % CapacityAlign = 0

BufNew(buf_capacity) ==
    [pool_inner |-> 0, len |-> 0, cap |-> <<0, buf_capacity>>,
     data |-> [i \in 1 .. buf_capacity |-> Uninit]]

WriteAt_OneEarly(data, off, s) ==
    [i \in 1 .. Len(data) |->
        IF i >= off /\ i < off + Len(s) THEN s[i - off + 1] ELSE data[i]]

\* copy_nonoverlapping / write_bytes at data offset off
WriteAt(data, off, s) ==
    [i \in 1 .. Len(data) |->
        IF i > off /\ i <= off + Len(s) THEN s[i - off] ELSE data[i]]

append_Strict(b, s) ==
    LET old_len == len(b)
        new_len == old_len + Len(s)
    IN  IF new_len < capacity(b)
        THEN [ret |-> TRUE,
              buf |-> [b EXCEPT !.len = new_len,
                                !.data = WriteAt(b.data, old_len, s)]]
        ELSE [ret |-> FALSE, buf |-> b]

append(b, s) ==
    LET old_len == len(b)
        new_len == old_len + Len(s)
    IN  IF new_len <= capacity(b)
        THEN [ret |-> TRUE,
              buf |-> [b EXCEPT !.len = new_len,
                                !.data = WriteAt(b.data, old_len, s)]]
        ELSE [ret |-> FALSE, buf |-> b]

repeat_Partial(b, num, val) ==
    LET old_len == len(b)
        new_len == old_len + num
    IN  IF new_len <= capacity(b)
        THEN [ret |-> TRUE,
              buf |-> [b EXCEPT !.len = new_len,
                                !.data = WriteAt(b.data, old_len,
                                                 [i \in 1 .. num |-> val])]]
        ELSE [ret |-> FALSE,
              buf |-> [b EXCEPT !.data = WriteAt(b.data, old_len,
                                                 [i \in 1 .. num |-> val])]]

repeat(b, num, val) ==
    LET old_len == len(b)
        new_len == old_len + num
    IN  IF new_len <= capacity(b)
        THEN [ret |-> TRUE,
              buf |-> [b EXCEPT !.len = new_len,
                                !.data = WriteAt(b.data, old_len,
                                                 [i \in 1 .. num |-> val])]]
        ELSE [ret |-> FALSE, buf |-> b]

clear_DropsFlag(b) == [b EXCEPT !.len = 0, !.cap = <<0, b.cap[2]>>]

clear_Zeroing(b) == [b EXCEPT !.len = 0, !.data = [i \in 1 .. Len(b.data) |-> 0]]

clear_NoOp(b) == b

clear(b) == [b EXCEPT !.len = 0]

ResizeOk_Unchecked(b, new_size) == TRUE

\* assert!() of Buf::resize
ResizeOk(b, new_size) == new_size <= capacity(b)

\* assert!() of Buf::clear_and_resize
ClearAndResizeOk(b, new_size) == new_size <= capacity(b)

clear_and_resize(b, new_size, val) ==
    [b EXCEPT !.len = new_size,
              !.data = WriteAt(b.data, 0, [i \in 1 .. new_size |-> val])]

resize_FromStart(b, new_size, val) ==
    [b EXCEPT !.len = new_size,
              !.data = WriteAt(b.data, 0, [i \in 1 .. new_size |-> val])]

\* A usize of 64 bits is <<h2, h1, lo>> of value h2 * 2^62 + h1 * 2^31 + lo
\* with lo, h1 < 2^31 and h2 < 4; usize::MAX is <<3, 2^31 - 1, 2^31 - 1>>.
UsizeTop == 3

Usize(n) == <<0, 0, n>>

UsizeIsSmall(x) == x[1] = 0 /\ x[2] = 0

\* a + b + c on 31 bits for a, b < 2^31 and c <= 1: <<carry out, sum>>
Add31(a, b, c) ==
    IF a > (MAX_CAPACITY - b) - c
    THEN <<1, ((a - (MAX_CAPACITY - b)) - 1) + c>>
    ELSE <<0, a + b + c>>

\* x + y on 64 bits: the wrapped sum and whether it overflowed
UsizeAdd(x, y) ==
    LET l == Add31(x[3], y[3], 0)
        h == Add31(x[2], y[2], l[1])
        t == x[1] + y[1] + h[1]
    IN  [sum |-> <<t % (UsizeTop + 1), h[2], l[2]>>, overflow |-> t > UsizeTop]

\* Buf::repeat with num of full width. old_len + num panics on overflow in
\* a build with overflow checks and wraps in one without; on the true branch
\* write_bytes is given num itself, so a wrapped sum that passes the test is
\* followed by a write of num bytes from old_len on: past the allocation.
repeat_usize(b, num, val, overflow_checks) ==
    LET old_len == len(b)
        new_len == UsizeAdd(Usize(old_len), num)
    IN  IF new_len.overflow /\ overflow_checks
        THEN [ret |-> "panic", buf |-> b]
        ELSE IF UsizeIsSmall(new_len.sum) /\ new_len.sum[3] <= capacity(b)
        THEN IF UsizeIsSmall(num) /\ ~new_len.overflow
             THEN [ret |-> "true", buf |-> repeat(b, num[3], val).buf]
             ELSE [ret |-> "out_of_bounds",
                   buf |-> [b EXCEPT !.len = new_len.sum[3],
                                     !.data = WriteAt(b.data, old_len,
                                         [i \in 1 .. Len(b.data) - old_len |-> val])]]
        ELSE [ret |-> "false", buf |-> b]

resize_NoFill(b, new_size, val) == [b EXCEPT !.len = new_size]

resize(b, new_size, val) ==
    LET old_size == b.len
    IN  IF new_size >= old_size
        THEN [b EXCEPT !.len = new_size,
                       !.data = WriteAt(b.data, old_size,
                                        [i \in 1 .. new_size - old_size |-> val])]
        ELSE [b EXCEPT !.len = new_size]

write_OkAlways(b, s) == [ret |-> <<"Ok", Len(s)>>, buf |-> append(b, s).buf]

\* <Buf as Write>::write: Ok(buf.len()) or Err(OutOfMemory)
write(b, s) ==
    LET r == append(b, s)
    IN  [ret |-> IF r.ret THEN <<"Ok", Len(s)>> ELSE <<"Err", "OutOfMemory">>,
         buf |-> r.buf]

\* <Buf as Write>::flush: Ok(()) and nothing else
flush(b) == [ret |-> "Ok", buf |-> b]

eq_WholeAllocation(x, y) == len(x) = len(y) /\ x.data = y.data

\* <Buf as PartialEq>::eq
eq(x, y) == as_slice(x) = as_slice(y)

clone_Verbatim(b) == b

clone_NoCopy(b) == BufNew(capacity(b))

clone(b) == append(BufNew(capacity(b)), as_slice(b)).buf

\* ------------------------------------------------------------------ state
VARIABLES
    mem,        \* address -> buffer memory (NoBuf: not allocated)
    inner,      \* pool -> PoolInner: buf_capacity, pool_start, pool_end and
                \*         the mutex-protected pair pool = <<cursor, dropped>>
    ptrs,       \* pool -> the pointer array between pool_start and pool_end
    mutex,      \* pool -> 0 (unlocked) or the thread holding the lock
    deallocs,   \* pool -> number of times PoolInner::dealloc ran on it
    handle,     \* pool -> the Pool value has not been dropped
    held,       \* address -> number of live Buf values pointing at it
    pc,         \* thread -> position inside the operation it is running
    targ,       \* thread -> buffer (or <<pool, 0>>) the operation works on
    uaf,        \* some access touched a pool allocation after its dealloc
    last,       \* the call that completed in the last step and its result
    lib,        \* the value of another type of the crate that the calls work on
                \* (ArrayVec, varint stream, Buffer, OnceArc); NoLib otherwise
    get_calls,  \* pool -> completed get() calls, saturating above pool_capacity
    any_release,\* pool -> some Buf was dropped since the pool was created
    at_drop     \* pool -> slots outstanding when the handle was dropped (-1: alive)

vars == <<mem, inner, ptrs, mutex, deallocs, handle, held, pc, targ, uaf,
          last, get_calls, any_release, at_drop, lib>>

NoLib == [kind |-> "none"]

poolVars == <<inner, ptrs, mutex, deallocs, handle, get_calls, any_release, at_drop>>

Pools == DOMAIN inner

HeapAddrs == {<<0, j>> : j \in 1 .. MaxHeap}

\* The first address the allocator hands out.
NewAddr0 == CHOOSE a \in HeapAddrs : \A b \in HeapAddrs : a[2] <= b[2]

FreeHeap == {a \in HeapAddrs : mem[a] = NoBuf}

\* Fallback allocations already promised to threads inside get().
Reserved == Cardinality({t \in Threads : pc[t] = "get_locked"})

CanAlloc == Cardinality(FreeHeap) > Reserved

NewAddr == CHOOSE a \in FreeHeap : \A b \in FreeHeap : a[2] <= b[2]

cursor(p) == inner[p].pool[1]

dropped(p) == inner[p].pool[2]

pool_remaining(p) == cursor(p) - inner[p].pool_start

\* op: the call; addr: the buffer it was made on or returned; ret: its result;
\* old: len() of the buffer (pool_remaining() of the pool) before the call;
\* n: its size argument; arg: its slice argument (for resize and repeat the
\* fill byte, for clone the address of the buffer cloned).
NoCall ==
    [op |-> "none", addr |-> <<0, 0>>, ret |-> "none", old |-> 0, n |-> 0, arg |-> << >>]

CallArg(op, a, ret, old, n, arg) ==
    [op |-> op, addr |-> a, ret |-> ret, old |-> old, n |-> n, arg |-> arg]

Call(op, a, ret, old, n) == CallArg(op, a, ret, old, n, << >>)

\* An access to the allocation of region r after it was deallocated.
Stale(r) == r # 0 /\ deallocs[r] > 0

\* ------------------------------------------------------------- Pool::new
PoolNew(buf_capacity, pool_capacity) ==
    [buf_capacity |-> buf_capacity,
     pool |-> <<pool_capacity, FALSE>>,
     pool_start |-> 0,
     pool_end |-> pool_capacity]

PoolNewOk(buf_capacity, pool_capacity) ==
    BufNewOk(buf_capacity) /\ pool_capacity > 0

\* The free list of a PoolInner pi: tests and moves of the cursor pool.0.
PoolIsEmpty(pi) == pi.pool[1] = pi.pool_start

PoolIsFull_Never(pi) == FALSE

PoolIsFull(pi) == pi.pool[1] = pi.pool_end

PoolPop_ToStart(pi) == [pi EXCEPT !.pool[1] = pi.pool_start]

\* pool.0 = pool.0.sub(1)
PoolPop(pi) == [pi EXCEPT !.pool[1] = @ - 1]

PoolStore_AtStart(arr, pi, ptr) == [arr EXCEPT ![pi.pool_start] = ptr]

PoolStore_Fifo(arr, pi, ptr) ==
    [o \in DOMAIN arr |->
        IF o = pi.pool_start THEN ptr
        ELSE IF o <= pi.pool[1] THEN arr[o - 1] ELSE arr[o]]

\* *pool.0 = self.0.as_ptr()
PoolStore(arr, pi, ptr) == [arr EXCEPT ![pi.pool[1]] = ptr]

PoolPush_NoMove(pi) == pi

\* pool.0 = pool.0.add(1)
PoolPush(pi) == [pi EXCEPT !.pool[1] = @ + 1]

BufDropTeardown_NotFull(pi) == pi.pool[2]

BufDropTeardown_Never(pi) == FALSE

BufDropTeardown_NoFlag(pi) == pi.pool[1] = pi.pool_end

\* The test of Buf::drop, after the push, for freeing the pool.
BufDropTeardown(pi) == pi.pool[1] = pi.pool_end /\ pi.pool[2]

\* The test of Pool::drop for freeing the pool at once.
PoolDropTeardown(pi) == pi.pool[1] = pi.pool_end /\ pi.pool[2]

GetFallback_Flagged(pi) ==
    [BufNew(pi.buf_capacity) EXCEPT !.cap = BitOr(BUF_HDR_CAPACITY_POOLED_FLAG, @)]

\* The buffer get() makes when the free list is empty.
GetFallback(pi) == BufNew(pi.buf_capacity)

PoolSlot_FirstPool(p, buf_capacity) ==
    [pool_inner |-> 1, len |-> 0,
     cap |-> BitOr(BUF_HDR_CAPACITY_POOLED_FLAG, <<0, buf_capacity>>),
     data |-> [i \in 1 .. buf_capacity |-> Uninit]]

\* A slot as Pool::new leaves it: the pointer to the PoolInner in front of
\* the header, length 0, capacity with the flag.
PoolSlot(p, buf_capacity) ==
    [pool_inner |-> p, len |-> 0,
     cap |-> BitOr(BUF_HDR_CAPACITY_POOLED_FLAG, <<0, buf_capacity>>),
     data |-> [i \in 1 .. buf_capacity |-> Uninit]]

Init ==
    \E c \in {CapacityAlign * u : u \in 1 .. MaxCapUnits},
       n \in 1 .. MaxPoolCapacity :
        /\ PoolNewOk(c, n)
        /\ inner = [p \in PoolIds |-> PoolNew(c, n)]
        /\ ptrs = [p \in PoolIds |-> [o \in 0 .. n - 1 |-> <<p, o + 1>>]]
        /\ mem = [a \in HeapAddrs \cup {<<p, i>> : p \in PoolIds, i \in 1 .. n} |->
                    IF a[1] = 0 THEN NoBuf ELSE PoolSlot(a[1], c)]
        /\ mutex = [p \in PoolIds |-> 0]
        /\ deallocs = [p \in PoolIds |-> 0]
        /\ handle = [p \in PoolIds |-> TRUE]
        /\ held = [a \in HeapAddrs \cup {<<p, i>> : p \in PoolIds, i \in 1 .. n} |-> 0]
        /\ pc = [t \in Threads |-> "idle"]
        /\ targ = [t \in Threads |-> <<0, 0>>]
        /\ uaf = FALSE
        /\ last = NoCall
        /\ get_calls = [p \in PoolIds |-> 0]
        /\ any_release = [p \in PoolIds |-> FALSE]
        /\ at_drop = [p \in PoolIds |-> -1]
        /\ lib = NoLib

\* ------------------------------------------------------------- Pool::get
\* let mut pool = (*self.0).pool.lock().unwrap();
Get(t, p) ==
    /\ pc[t] = "idle"
    /\ handle[p]
    /\ mutex[p] = 0
    /\ ~PoolIsEmpty(inner[p]) \/ CanAlloc
    /\ mutex' = [mutex EXCEPT ![p] = t]
    /\ pc' = [pc EXCEPT ![t] = "get_locked"]
    /\ targ' = [targ EXCEPT ![t] = <<p, 0>>]
    /\ uaf' = (uaf \/ Stale(p))
    /\ last' = NoCall
    /\ UNCHANGED <<mem, inner, ptrs, deallocs, handle, held, get_calls,
                   any_release, at_drop>>
    /\ UNCHANGED lib

GetBody_KeepLock(t) ==
    LET p == targ[t][1]
        popped == PoolPop(inner[p])
        buf == ptrs[p][popped.pool[1]]
    IN  /\ pc[t] = "get_locked"
        /\ IF ~PoolIsEmpty(inner[p])
           THEN /\ inner' = [inner EXCEPT ![p] = popped]
                /\ held' = [held EXCEPT ![buf] = @ + 1]
                /\ last' = Call("get", buf, "ok", pool_remaining(p), 0)
                /\ mem' = mem
           ELSE /\ mem' = [mem EXCEPT ![NewAddr] = GetFallback(inner[p])]
                /\ held' = [held EXCEPT ![NewAddr] = @ + 1]
                /\ last' = Call("get", NewAddr, "ok", pool_remaining(p), 0)
                /\ inner' = inner
        /\ mutex' = mutex
        /\ pc' = [pc EXCEPT ![t] = "idle"]
        /\ targ' = [targ EXCEPT ![t] = <<0, 0>>]
        /\ uaf' = (uaf \/ Stale(p))
        /\ get_calls' = [get_calls EXCEPT ![p] = Min(@ + 1, inner[p].pool_end + 1)]
        /\ UNCHANGED <<ptrs, deallocs, handle, any_release, at_drop>>
        /\ UNCHANGED lib

\* The body of get() under the lock; the guard is released on return.
GetBody(t) ==
    LET p == targ[t][1]
        popped == PoolPop(inner[p])
        buf == ptrs[p][popped.pool[1]]
    IN  /\ pc[t] = "get_locked"
        /\ IF ~PoolIsEmpty(inner[p])
           THEN /\ inner' = [inner EXCEPT ![p] = popped]
                /\ held' = [held EXCEPT ![buf] = @ + 1]
                /\ last' = Call("get", buf, "ok", pool_remaining(p), 0)
                /\ mem' = mem
           ELSE /\ mem' = [mem EXCEPT ![NewAddr] = GetFallback(inner[p])]
                /\ held' = [held EXCEPT ![NewAddr] = @ + 1]
                /\ last' = Call("get", NewAddr, "ok", pool_remaining(p), 0)
                /\ inner' = inner
        /\ mutex' = [mutex EXCEPT ![p] = 0]
        /\ pc' = [pc EXCEPT ![t] = "idle"]
        /\ targ' = [targ EXCEPT ![t] = <<0, 0>>]
        /\ uaf' = (uaf \/ Stale(p))
        /\ get_calls' = [get_calls EXCEPT ![p] = Min(@ + 1, inner[p].pool_end + 1)]
        /\ UNCHANGED <<ptrs, deallocs, handle, any_release, at_drop>>
        /\ UNCHANGED lib

\* ------------------------------------------------ Pool::get_with_min_capacity
GetWithMinCapacity(t, p, min_capacity) ==
    /\ pc[t] = "idle"
    /\ handle[p]
    /\ IF inner[p].buf_capacity >= min_capacity
       THEN Get(t, p)
       ELSE /\ uaf' = (uaf \/ Stale(p))
            /\ IF BufNewOk(min_capacity)
               THEN /\ CanAlloc
                    /\ mem' = [mem EXCEPT ![NewAddr] = BufNew(min_capacity)]
                    /\ held' = [held EXCEPT ![NewAddr] = @ + 1]
                    /\ last' = Call("get_with_min_capacity", NewAddr, "ok",
                                    pool_remaining(p), min_capacity)
               ELSE /\ last' = Call("get_with_min_capacity", <<0, 0>>, "panic",
                                    pool_remaining(p), min_capacity)
                    /\ UNCHANGED <<mem, held>>
            /\ UNCHANGED <<poolVars, pc, targ>>
    /\ UNCHANGED lib

\* --------------------------------------------------------- Pool::pool_remaining
PoolRemaining(t, p) ==
    /\ pc[t] = "idle"
    /\ handle[p]
    /\ mutex[p] = 0
    /\ uaf' = (uaf \/ Stale(p))
    /\ last' = Call("pool_remaining", <<p, 0>>, "ok", 0, pool_remaining(p))
    /\ UNCHANGED <<mem, poolVars, held, pc, targ>>
    /\ UNCHANGED lib

\* ------------------------------------------------------ <Buf as Drop>::drop
\* Reads the header; a pooled buffer is cleared and its PoolInner located
\* through the pointer stored in front of the header, any other buffer is
\* handed back to the allocator.
DropBuf(t, a) ==
    /\ pc[t] = "idle"
    /\ held[a] > 0
    /\ held' = [held EXCEPT ![a] = @ - 1]
    /\ uaf' = (uaf \/ Stale(a[1]))
    /\ last' = NoCall
    /\ IF IsPooled(mem[a])
       THEN /\ mem' = [mem EXCEPT ![a] = clear(@)]
            /\ pc' = [pc EXCEPT ![t] = "drop_lock"]
            /\ targ' = [targ EXCEPT ![t] = a]
            /\ any_release' = [any_release EXCEPT ![mem[a].pool_inner] = TRUE]
       ELSE /\ mem' = [mem EXCEPT ![a] = NoBuf]
            /\ any_release' = [p \in Pools |-> TRUE]
            /\ UNCHANGED <<pc, targ>>
    /\ UNCHANGED <<inner, ptrs, mutex, deallocs, handle, get_calls, at_drop>>
    /\ UNCHANGED lib

\* let mut pool = pool_inner.pool.lock().unwrap();
DropLock(t) ==
    LET p == mem[targ[t]].pool_inner
    IN  /\ pc[t] = "drop_lock"
        /\ mutex[p] = 0
        /\ mutex' = [mutex EXCEPT ![p] = t]
        /\ pc' = [pc EXCEPT ![t] = "drop_locked"]
        /\ uaf' = (uaf \/ Stale(p))
        /\ last' = NoCall
        /\ UNCHANGED <<mem, inner, ptrs, deallocs, handle, held, targ,
                       get_calls, any_release, at_drop>>
        /\ UNCHANGED lib

\* The push under the lock: assert_ne!, store, advance, test for teardown.
\* The lock is released on the way out of the push, on the teardown path
\* before the call of PoolInner::dealloc. A failed assert_ne! unwinds with the
\* guard alive, which poisons the mutex (-1): every later lock().unwrap()
\* panics before it reads or writes the pool.
DropBody(t) ==
    LET p == mem[targ[t]].pool_inner
        pushed == PoolPush(inner[p])
    IN  /\ pc[t] = "drop_locked"
        /\ uaf' = (uaf \/ Stale(p))
        /\ last' = NoCall
        /\ IF PoolIsFull(inner[p])
           THEN /\ pc' = [pc EXCEPT ![t] = "panicked"]
                /\ mutex' = [mutex EXCEPT ![p] = -1]
                /\ UNCHANGED <<inner, ptrs, targ>>
           ELSE /\ mutex' = [mutex EXCEPT ![p] = 0]
                /\ ptrs' = [ptrs EXCEPT ![p] = PoolStore(@, inner[p], targ[t])]
                /\ inner' = [inner EXCEPT ![p] = pushed]
                /\ IF BufDropTeardown(pushed)
                   THEN /\ pc' = [pc EXCEPT ![t] = "dealloc"]
                        /\ targ' = [targ EXCEPT ![t] = <<p, 0>>]
                   ELSE /\ pc' = [pc EXCEPT ![t] = "idle"]
                        /\ targ' = [targ EXCEPT ![t] = <<0, 0>>]
        /\ UNCHANGED <<mem, deallocs, handle, held, get_calls, any_release, at_drop>>
        /\ UNCHANGED lib

\* ----------------------------------------------------- PoolInner::dealloc
\* Reads the layout out of the control block, then frees the allocation.
PoolInnerDealloc(t) ==
    LET p == targ[t][1]
    IN  /\ pc[t] = "dealloc"
        /\ uaf' = (uaf \/ Stale(p))
        /\ deallocs' = [deallocs EXCEPT ![p] = @ + 1]
        /\ pc' = [pc EXCEPT ![t] = "idle"]
        /\ targ' = [targ EXCEPT ![t] = <<0, 0>>]
        /\ last' = NoCall
        /\ UNCHANGED <<mem, inner, ptrs, mutex, handle, held, get_calls,
                       any_release, at_drop>>
        /\ UNCHANGED lib

\* ----------------------------------------------------- <Pool as Drop>::drop
\* The Pool value is consumed: no other call on it can start afterwards.
PoolDrop(t, p) ==
    /\ pc[t] = "idle"
    /\ handle[p]
    /\ mutex[p] = 0
    /\ handle' = [handle EXCEPT ![p] = FALSE]
    /\ mutex' = [mutex EXCEPT ![p] = t]
    /\ pc' = [pc EXCEPT ![t] = "pool_drop_locked"]
    /\ targ' = [targ EXCEPT ![t] = <<p, 0>>]
    /\ uaf' = (uaf \/ Stale(p))
    /\ last' = NoCall
    /\ UNCHANGED <<mem, inner, ptrs, deallocs, held, get_calls, any_release, at_drop>>
    /\ UNCHANGED lib

\* if pool.0 == pool_inner.pool_end && pool.1 { drop(pool); dealloc } else { pool.1 = true }
PoolDropBody(t) ==
    LET p == targ[t][1]
    IN  /\ pc[t] = "pool_drop_locked"
        /\ uaf' = (uaf \/ Stale(p))
        /\ last' = NoCall
        /\ mutex' = [mutex EXCEPT ![p] = 0]
        /\ at_drop' = [at_drop EXCEPT ![p] = inner[p].pool_end - cursor(p)]
        /\ IF PoolDropTeardown(inner[p])
           THEN /\ deallocs' = [deallocs EXCEPT ![p] = @ + 1]
                /\ inner' = inner
           ELSE /\ inner' = [inner EXCEPT ![p].pool[2] = TRUE]
                /\ deallocs' = deallocs
        /\ pc' = [pc EXCEPT ![t] = "idle"]
        /\ targ' = [targ EXCEPT ![t] = <<0, 0>>]
        /\ UNCHANGED <<mem, ptrs, handle, held, get_calls, any_release>>
        /\ UNCHANGED lib

\* ------------------------------------------- calls on a checked-out Buf
\* A Buf has one owner and no lock: each call on it is one step.
BufAppend(a, s) ==
    LET r == append(mem[a], s)
    IN  /\ held[a] > 0
        /\ mem' = [mem EXCEPT ![a] = r.buf]
        /\ uaf' = (uaf \/ Stale(a[1]))
        /\ last' = CallArg("append", a, IF r.ret THEN "true" ELSE "false",
                           len(mem[a]), Len(s), s)
        /\ UNCHANGED <<poolVars, held, pc, targ>>
        /\ UNCHANGED lib

BufRepeat(a, num, val) ==
    LET r == repeat(mem[a], num, val)
    IN  /\ held[a] > 0
        /\ mem' = [mem EXCEPT ![a] = r.buf]
        /\ uaf' = (uaf \/ Stale(a[1]))
        /\ last' = CallArg("repeat", a, IF r.ret THEN "true" ELSE "false",
                           len(mem[a]), num, <<val>>)
        /\ UNCHANGED <<poolVars, held, pc, targ>>
        /\ UNCHANGED lib

BufResize(a, new_size, val) ==
    /\ held[a] > 0
    /\ uaf' = (uaf \/ Stale(a[1]))
    /\ IF ResizeOk(mem[a], new_size)
       THEN /\ mem' = [mem EXCEPT ![a] = resize(@, new_size, val)]
            /\ last' = CallArg("resize", a, "ok", len(mem[a]), new_size, <<val>>)
       ELSE /\ mem' = mem
            /\ last' = CallArg("resize", a, "panic", len(mem[a]), new_size, <<val>>)
    /\ UNCHANGED <<poolVars, held, pc, targ>>
    /\ UNCHANGED lib

BufClear(a) ==
    /\ held[a] > 0
    /\ uaf' = (uaf \/ Stale(a[1]))
    /\ mem' = [mem EXCEPT ![a] = clear(@)]
    /\ last' = Call("clear", a, "ok", len(mem[a]), 0)
    /\ UNCHANGED <<poolVars, held, pc, targ>>
    /\ UNCHANGED lib

BufClearAndResize(a, new_size, val) ==
    /\ held[a] > 0
    /\ uaf' = (uaf \/ Stale(a[1]))
    /\ IF ClearAndResizeOk(mem[a], new_size)
       THEN /\ mem' = [mem EXCEPT ![a] = clear_and_resize(@, new_size, val)]
            /\ last' = CallArg("clear_and_resize", a, "ok", len(mem[a]), new_size, <<val>>)
       ELSE /\ mem' = mem
            /\ last' = CallArg("clear_and_resize", a, "panic", len(mem[a]), new_size, <<val>>)
    /\ UNCHANGED <<poolVars, held, pc, targ>>
    /\ UNCHANGED lib

BufWrite(a, s) ==
    LET r == write(mem[a], s)
    IN  /\ held[a] > 0
        /\ mem' = [mem EXCEPT ![a] = r.buf]
        /\ uaf' = (uaf \/ Stale(a[1]))
        /\ last' = CallArg("write", a, r.ret[1], len(mem[a]),
                           IF r.ret[1] = "Ok" THEN r.ret[2] ELSE 0, s)
        /\ UNCHANGED <<poolVars, held, pc, targ>>
        /\ UNCHANGED lib

BufFlush(a) ==
    LET r == flush(mem[a])
    IN  /\ held[a] > 0
        /\ mem' = [mem EXCEPT ![a] = r.buf]
        /\ uaf' = (uaf \/ Stale(a[1]))
        /\ last' = Call("flush", a, r.ret, len(mem[a]), 0)
        /\ UNCHANGED <<poolVars, held, pc, targ>>
        /\ UNCHANGED lib

\* a == b on two borrowed buffers
BufEq(a, b) ==
    /\ held[a] > 0 /\ held[b] > 0
    /\ uaf' = (uaf \/ Stale(a[1]) \/ Stale(b[1]))
    /\ last' = CallArg("eq", a, IF eq(mem[a], mem[b]) THEN "true" ELSE "false",
                       len(mem[a]), len(mem[b]), b)
    /\ UNCHANGED <<poolVars, mem, held, pc, targ>>
    /\ UNCHANGED lib

\* Buf::new(self.capacity()), then the append whose result is dropped; ret
\* records that result.
BufClone(a) ==
    /\ held[a] > 0
    /\ uaf' = (uaf \/ Stale(a[1]))
    /\ IF BufNewOk(capacity(mem[a]))
       THEN /\ CanAlloc
            /\ mem' = [mem EXCEPT ![NewAddr] = clone(mem[a])]
            /\ held' = [held EXCEPT ![NewAddr] = @ + 1]
            /\ last' = CallArg("clone", NewAddr,
                               IF append(BufNew(capacity(mem[a])), as_slice(mem[a])).ret
                               THEN "true" ELSE "false",
                               len(mem[a]), 0, a)
       ELSE /\ last' = CallArg("clone", <<0, 0>>, "panic", len(mem[a]), 0, a)
            /\ UNCHANGED <<mem, held>>
    /\ UNCHANGED <<poolVars, pc, targ>>
    /\ UNCHANGED lib

\* repeat(num, val) with num of full width; arg records val and num.
BufRepeatUsize(a, num, val, overflow_checks) ==
    LET r == repeat_usize(mem[a], num, val, overflow_checks)
    IN  /\ held[a] > 0
        /\ mem' = [mem EXCEPT ![a] = r.buf]
        /\ uaf' = (uaf \/ Stale(a[1]))
        /\ last' = CallArg("repeat", a, r.ret, len(mem[a]),
                           IF UsizeIsSmall(num) THEN num[3] ELSE MAX_CAPACITY,
                           <<val>> \o num)
        /\ UNCHANGED <<poolVars, held, pc, targ>>
        /\ UNCHANGED lib

\* --------------------------------------------------------- specification
\* The slice and the sizes the callers of the pool model pass.
Chunk(a) == [i \in 1 .. capacity(mem[a]) |-> 1]

MinCapacities(p) ==
    {inner[p].buf_capacity, inner[p].buf_capacity + 4, inner[p].buf_capacity + 8}

Next ==
    \/ \E t \in Threads, p \in Pools : Get(t, p)
    \/ \E t \in Threads : GetBody(t)
    \/ \E t \in Threads, p \in Pools : \E m \in MinCapacities(p) :
            GetWithMinCapacity(t, p, m)
    \/ \E t \in Threads, p \in Pools : PoolRemaining(t, p)
    \/ \E t \in Threads, a \in DOMAIN mem : DropBuf(t, a)
    \/ \E t \in Threads : DropLock(t)
    \/ \E t \in Threads : DropBody(t)
    \/ \E t \in Threads : PoolInnerDealloc(t)
    \/ \E t \in Threads, p \in Pools : PoolDrop(t, p)
    \/ \E t \in Threads : PoolDropBody(t)
    \/ \E a \in DOMAIN mem : BufAppend(a, Chunk(a))
    \/ \E a \in DOMAIN mem : BufClone(a)

Spec == Init /\ [][Next]_vars

\* The scheduler lets every thread that is inside a call take its next step,
\* and a thread that waits for the mutex gets it if it is free again and
\* again.
Fairness ==
    \A t \in Threads :
        /\ WF_vars(GetBody(t))
        /\ SF_vars(DropLock(t))
        /\ WF_vars(DropBody(t))
        /\ WF_vars(PoolInnerDealloc(t))
        /\ WF_vars(PoolDropBody(t))

SpecFair == Init /\ [][Next]_vars /\ Fairness

\* ------------------------------------- specification of one buffer's calls
\* One buffer is owned by the caller: made by Buf::new(c), or checked out by
\* get() from a fresh Pool::new(c, 1).  Every call of Buf is made on it with
\* slices up to one byte longer than its capacity.
InitBuf ==
    \E c \in {CapacityAlign * u : u \in 1 .. MaxCapUnits}, pooled \in BOOLEAN :
        /\ inner = [p \in PoolIds |->
                      IF pooled THEN PoolPop(PoolNew(c, 1)) ELSE PoolNew(c, 1)]
        /\ ptrs = [p \in PoolIds |-> [o \in 0 .. 0 |-> <<p, o + 1>>]]
        /\ mem = [a \in HeapAddrs \cup {<<p, 1>> : p \in PoolIds} |->
                    IF a[1] # 0 THEN PoolSlot(a[1], c)
                    ELSE IF ~pooled /\ a = <<0, 1>> THEN BufNew(c) ELSE NoBuf]
        /\ held = [a \in HeapAddrs \cup {<<p, 1>> : p \in PoolIds} |->
                    IF a = (IF pooled THEN <<1, 1>> ELSE <<0, 1>>) THEN 1 ELSE 0]
        /\ mutex = [p \in PoolIds |-> 0]
        /\ deallocs = [p \in PoolIds |-> 0]
        /\ handle = [p \in PoolIds |-> TRUE]
        /\ pc = [t \in Threads |-> "idle"]
        /\ targ = [t \in Threads |-> <<0, 0>>]
        /\ uaf = FALSE
        /\ last = NoCall
        /\ get_calls = [p \in PoolIds |-> IF pooled THEN 1 ELSE 0]
        /\ any_release = [p \in PoolIds |-> FALSE]
        /\ at_drop = [p \in PoolIds |-> -1]
        /\ lib = NoLib

RECURSIVE SeqsUpTo(_, _)
SeqsUpTo(S, n) ==
    IF n = 0 THEN {<< >>}
    ELSE LET shorter == SeqsUpTo(S, n - 1)
         IN  shorter \cup {Append(s, x) : s \in {q \in shorter : Len(q) = n - 1}, x \in S}

Slices(a) ==
    SeqsUpTo(Bytes, MaxSliceLen)
        \cup {[i \in 1 .. n |-> 0] : n \in {capacity(mem[a]), capacity(mem[a]) + 1}}

Sizes(a) == {0, capacity(mem[a]) \div 2, capacity(mem[a]), capacity(mem[a]) + 1}

Counts(a) == {0, 1, capacity(mem[a]) - 1, capacity(mem[a]) + 1}

NextBuf ==
    \/ \E a \in DOMAIN mem : \E s \in Slices(a) : BufAppend(a, s)
    \/ \E a \in DOMAIN mem : \E n \in Sizes(a), v \in Bytes : BufResize(a, n, v)
    \/ \E a \in DOMAIN mem : BufClear(a)
    \/ \E a \in DOMAIN mem : \E n \in Counts(a), v \in Bytes : BufRepeat(a, n, v)

SpecBuf == InitBuf /\ [][NextBuf]_vars

\* --------------------------------- specification of repeat over all of usize
\* The buffer of InitBuf is appended to, cleared and repeat is called on it
\* with counts around its free space, around 2^31 and at the top of usize,
\* in builds with and without overflow checks. A write past the allocation
\* ends the run.
RepeatCounts(a) ==
    {Usize(n) : n \in {0, 1, capacity(mem[a]) - len(mem[a]),
                       (capacity(mem[a]) - len(mem[a])) + 1, MAX_CAPACITY}}
        \cup {<<0, 1, 0>>, <<UsizeTop, MAX_CAPACITY, MAX_CAPACITY>>,
              <<UsizeTop, MAX_CAPACITY, MAX_CAPACITY - capacity(mem[a])>>}
        \cup {<<UsizeTop, MAX_CAPACITY, MAX_CAPACITY - (l - 1)>> : l \in {len(mem[a])} \ {0}}

RepeatSlices == {<<1, 1, 1>>}

\* The process is alive: no write went past an allocation.
Running == last.ret # "out_of_bounds"

RepeatAppend(a, s) == Running /\ BufAppend(a, s)

RepeatClear(a) == Running /\ BufClear(a)

RepeatRepeat(a, num, val, overflow_checks) ==
    Running /\ BufRepeatUsize(a, num, val, overflow_checks)

NextRepeat ==
    \/ \E a \in DOMAIN mem : \E s \in RepeatSlices : RepeatAppend(a, s)
    \/ \E a \in DOMAIN mem : RepeatClear(a)
    \/ \E a \in DOMAIN mem : \E n \in RepeatCounts(a), oc \in BOOLEAN :
            RepeatRepeat(a, n, 0, oc)

SpecRepeat == InitBuf /\ [][NextRepeat]_vars

\* ----------------------------- specification of a buffer and its clone
\* A buffer checked out of Pool::new(c, 1) is owned by the caller, who makes
\* every call of Buf on it and on its clones, drops them and checks the
\* buffer out again.
InitClone ==
    \E c \in {CapacityAlign * u : u \in 1 .. MaxCapUnits} :
        /\ inner = [p \in PoolIds |-> PoolPop(PoolNew(c, 1))]
        /\ ptrs = [p \in PoolIds |-> [o \in 0 .. 0 |-> <<p, o + 1>>]]
        /\ mem = [a \in HeapAddrs \cup {<<p, 1>> : p \in PoolIds} |->
                    IF a[1] # 0 THEN PoolSlot(a[1], c) ELSE NoBuf]
        /\ held = [a \in HeapAddrs \cup {<<p, 1>> : p \in PoolIds} |->
                    IF a[1] # 0 THEN 1 ELSE 0]
        /\ mutex = [p \in PoolIds |-> 0]
        /\ deallocs = [p \in PoolIds |-> 0]
        /\ handle = [p \in PoolIds |-> TRUE]
        /\ pc = [t \in Threads |-> "idle"]
        /\ targ = [t \in Threads |-> <<0, 0>>]
        /\ uaf = FALSE
        /\ last = NoCall
        /\ get_calls = [p \in PoolIds |-> 1]
        /\ any_release = [p \in PoolIds |-> FALSE]
        /\ at_drop = [p \in PoolIds |-> -1]
        /\ lib = NoLib

\* A slice of three bytes; sizes that empty the buffer, fill it, and exceed it.
CloneSlices(a) == {<<1, 0, 1>>}

CloneSizes(a) == {0, capacity(mem[a]), capacity(mem[a]) + 1}

NextClone ==
    \/ \E a \in DOMAIN mem : BufClone(a)
    \/ \E a \in DOMAIN mem : \E s \in CloneSlices(a) : BufAppend(a, s)
    \/ \E a \in DOMAIN mem : \E s \in CloneSlices(a) : BufWrite(a, s)
    \/ \E a \in DOMAIN mem : BufFlush(a)
    \/ \E a \in DOMAIN mem : BufRepeat(a, capacity(mem[a]), 0)
    \/ \E a \in DOMAIN mem : \E n \in CloneSizes(a) : BufResize(a, n, 1)
    \/ \E a \in DOMAIN mem : \E n \in CloneSizes(a) : BufClearAndResize(a, n, 0)
    \/ \E a \in DOMAIN mem : BufClear(a)
    \/ \E t \in Threads, a \in DOMAIN mem : DropBuf(t, a)
    \/ \E t \in Threads : DropLock(t)
    \/ \E t \in Threads : DropBody(t)
    \/ \E t \in Threads, p \in Pools : Get(t, p)
    \/ \E t \in Threads : GetBody(t)

SpecClone == InitClone /\ [][NextClone]_vars

\* ------------------------------------------ specification of two buffers
\* The caller owns a buffer checked out of Pool::new(c, 1) and a standalone
\* Buf::new(d), d being c or c + 8, fills and clears them and compares them.
InitEq ==
    \E c \in {CapacityAlign * u : u \in 1 .. MaxCapUnits} :
    \E d \in {c, c + CapacityAlign} :
        /\ inner = [p \in PoolIds |-> PoolPop(PoolNew(c, 1))]
        /\ ptrs = [p \in PoolIds |-> [o \in 0 .. 0 |-> <<p, o + 1>>]]
        /\ mem = [a \in HeapAddrs \cup {<<p, 1>> : p \in PoolIds} |->
                    IF a[1] # 0 THEN PoolSlot(a[1], c)
                    ELSE IF a = NewAddr0 THEN BufNew(d) ELSE NoBuf]
        /\ held = [a \in HeapAddrs \cup {<<p, 1>> : p \in PoolIds} |->
                    IF a[1] # 0 \/ a = NewAddr0 THEN 1 ELSE 0]
        /\ mutex = [p \in PoolIds |-> 0]
        /\ deallocs = [p \in PoolIds |-> 0]
        /\ handle = [p \in PoolIds |-> TRUE]
        /\ pc = [t \in Threads |-> "idle"]
        /\ targ = [t \in Threads |-> <<0, 0>>]
        /\ uaf = FALSE
        /\ last = NoCall
        /\ get_calls = [p \in PoolIds |-> 1]
        /\ any_release = [p \in PoolIds |-> FALSE]
        /\ at_drop = [p \in PoolIds |-> -1]
        /\ lib = NoLib

EqSlices == {<<1, 0, 1>>, <<0, 1, 1>>}

NextEq ==
    \/ \E a \in DOMAIN mem : \E s \in EqSlices : BufAppend(a, s)
    \/ \E a \in DOMAIN mem : BufClear(a)
    \/ \E a, b \in DOMAIN mem : BufEq(a, b)

SpecEq == InitEq /\ [][NextEq]_vars

\* -------------------------------------------- specification of the constructors
\* A usize argument is the pair <<hi, lo>> of value hi * 2^31 + lo, with
\* lo < 2^31. As 2^31 is divisible by 8, the remainder by 8 is that of lo.
NewAssert_ZeroOk(w) ==
    /\ w[1] = 0 /\ w[2] <= MAX_CAPACITY
    /\ w[2] % CapacityAlign = 0

\* assert!() of Buf::new on the usize w
NewAssert(w) ==
    /\ w[1] = 0 /\ w[2] <= MAX_CAPACITY
    /\ w[1] > 0 \/ w[2] > 0
    /\ w[2] % CapacityAlign = 0

\* assert!() of Pool::new
PoolNewAssert(w, pool_capacity) == NewAssert(w) /\ pool_capacity > 0

\* buf_capacity as u32: the low 32 bits, as <<bit 31, low 31 bits>>
AsU32(w) == <<w[1] % 2, w[2]>>

\* Zero, misaligned, aligned, and oversized capacities.
Capacities ==
    {<<0, 0>>, <<0, 4>>, <<0, 12>>, <<0, MAX_CAPACITY>>, <<1, 0>>, <<1, 8>>, <<2, 8>>}
        \cup {<<0, CapacityAlign * u>> : u \in 1 .. MaxCapUnits}

InitNew ==
    /\ inner = << >>
    /\ ptrs = << >>
    /\ mutex = << >>
    /\ deallocs = << >>
    /\ handle = << >>
    /\ get_calls = << >>
    /\ any_release = << >>
    /\ at_drop = << >>
    /\ mem = [a \in HeapAddrs |-> NoBuf]
    /\ held = [a \in HeapAddrs |-> 0]
    /\ pc = [t \in Threads |-> "idle"]
    /\ targ = [t \in Threads |-> <<0, 0>>]
    /\ uaf = FALSE
    /\ last = NoCall
    /\ lib = NoLib

\* Buf::new(w)
NewBuf(w) ==
    /\ IF NewAssert(w)
       THEN /\ CanAlloc
            /\ mem' = [mem EXCEPT ![NewAddr] = [BufNew(w[2]) EXCEPT !.cap = AsU32(w)]]
            /\ held' = [held EXCEPT ![NewAddr] = @ + 1]
            /\ last' = CallArg("Buf::new", NewAddr, "ok", 0, 0, w)
       ELSE /\ last' = CallArg("Buf::new", <<0, 0>>, "panic", 0, 0, w)
            /\ UNCHANGED <<mem, held>>
    /\ UNCHANGED <<poolVars, pc, targ, uaf>>
    /\ UNCHANGED lib

\* Pool::new(w, pool_capacity), the first pool of the program
NewPool(w, pool_capacity) ==
    LET c == w[2]
        slots == {<<p, i>> : p \in PoolIds, i \in 1 .. pool_capacity}
    IN  /\ Pools = {}
        /\ IF PoolNewAssert(w, pool_capacity)
           THEN /\ inner' = [p \in PoolIds |-> PoolNew(c, pool_capacity)]
                /\ ptrs' = [p \in PoolIds |-> [o \in 0 .. pool_capacity - 1 |-> <<p, o + 1>>]]
                /\ mem' = [a \in DOMAIN mem \cup slots |->
                             IF a \in slots
                             THEN [PoolSlot(a[1], c) EXCEPT
                                     !.cap = BitOr(BUF_HDR_CAPACITY_POOLED_FLAG, AsU32(w))]
                             ELSE mem[a]]
                /\ held' = [a \in DOMAIN mem \cup slots |->
                             IF a \in slots THEN 0 ELSE held[a]]
                /\ mutex' = [p \in PoolIds |-> 0]
                /\ deallocs' = [p \in PoolIds |-> 0]
                /\ handle' = [p \in PoolIds |-> TRUE]
                /\ get_calls' = [p \in PoolIds |-> 0]
                /\ any_release' = [p \in PoolIds |-> FALSE]
                /\ at_drop' = [p \in PoolIds |-> -1]
                /\ last' = CallArg("Pool::new", <<1, 0>>, "ok", 0, pool_capacity, w)
           ELSE /\ last' = CallArg("Pool::new", <<0, 0>>, "panic", 0, pool_capacity, w)
                /\ UNCHANGED <<poolVars, mem, held>>
        /\ UNCHANGED <<pc, targ, uaf>>
        /\ UNCHANGED lib

NextNew ==
    \/ \E w \in Capacities : NewBuf(w)
    \/ \E w \in Capacities : \E n \in 0 .. MaxPoolCapacity : NewPool(w, n)
    \/ \E t \in Threads, p \in Pools : Get(t, p)
    \/ \E t \in Threads : GetBody(t)
    \/ \E t \in Threads, a \in DOMAIN mem : DropBuf(t, a)
    \/ \E t \in Threads : DropLock(t)
    \/ \E t \in Threads : DropBody(t)

SpecNew == InitNew /\ [][NextNew]_vars

\* ------------------------------------- specification of a duplicated handle
\* A caller defect: the Buf checked out of Pool::new(c, n) was duplicated
\* bitwise (ptr::read), so two handles of the same slot will be dropped.
InitDouble ==
    \E c \in {CapacityAlign * u : u \in 1 .. MaxCapUnits},
       n \in 1 .. MaxPoolCapacity :
        /\ inner = [p \in PoolIds |-> PoolPop(PoolNew(c, n))]
        /\ ptrs = [p \in PoolIds |-> [o \in 0 .. n - 1 |-> <<p, o + 1>>]]
        /\ mem = [a \in HeapAddrs \cup {<<p, i>> : p \in PoolIds, i \in 1 .. n} |->
                    IF a[1] = 0 THEN NoBuf ELSE PoolSlot(a[1], c)]
        /\ held = [a \in HeapAddrs \cup {<<p, i>> : p \in PoolIds, i \in 1 .. n} |->
                    IF a[1] # 0 /\ a[2] = n THEN 2 ELSE 0]
        /\ mutex = [p \in PoolIds |-> 0]
        /\ deallocs = [p \in PoolIds |-> 0]
        /\ handle = [p \in PoolIds |-> TRUE]
        /\ pc = [t \in Threads |-> "idle"]
        /\ targ = [t \in Threads |-> <<0, 0>>]
        /\ uaf = FALSE
        /\ last = NoCall
        /\ get_calls = [p \in PoolIds |-> 1]
        /\ any_release = [p \in PoolIds |-> FALSE]
        /\ at_drop = [p \in PoolIds |-> -1]
        /\ lib = NoLib

NextDouble ==
    \/ \E t \in Threads, p \in Pools : Get(t, p)
    \/ \E t \in Threads : GetBody(t)
    \/ \E t \in Threads, a \in DOMAIN mem : DropBuf(t, a)
    \/ \E t \in Threads : DropLock(t)
    \/ \E t \in Threads : DropBody(t)
    \/ \E a \in DOMAIN mem : BufAppend(a, Chunk(a))

SpecDouble == InitDouble /\ [][NextDouble]_vars

\* ------------------------------------------------ specification of two pools
\* Pool::new(c, n) and Pool::new(c + 8, n) are alive together; the threads
\* check buffers out of both and drop them.
TwoPools == {1, 2}

PoolCapacityOf(p, c) == c + (p - 1) * CapacityAlign

InitPools ==
    \E c \in {CapacityAlign * u : u \in 1 .. MaxCapUnits},
       n \in 1 .. MaxPoolCapacity :
        /\ \A p \in TwoPools : PoolNewOk(PoolCapacityOf(p, c), n)
        /\ inner = [p \in TwoPools |-> PoolNew(PoolCapacityOf(p, c), n)]
        /\ ptrs = [p \in TwoPools |-> [o \in 0 .. n - 1 |-> <<p, o + 1>>]]
        /\ mem = [a \in HeapAddrs \cup {<<p, i>> : p \in TwoPools, i \in 1 .. n} |->
                    IF a[1] = 0 THEN NoBuf ELSE PoolSlot(a[1], PoolCapacityOf(a[1], c))]
        /\ mutex = [p \in TwoPools |-> 0]
        /\ deallocs = [p \in TwoPools |-> 0]
        /\ handle = [p \in TwoPools |-> TRUE]
        /\ held = [a \in HeapAddrs \cup {<<p, i>> : p \in TwoPools, i \in 1 .. n} |-> 0]
        /\ pc = [t \in Threads |-> "idle"]
        /\ targ = [t \in Threads |-> <<0, 0>>]
        /\ uaf = FALSE
        /\ last = NoCall
        /\ get_calls = [p \in TwoPools |-> 0]
        /\ any_release = [p \in TwoPools |-> FALSE]
        /\ at_drop = [p \in TwoPools |-> -1]
        /\ lib = NoLib

NextPools ==
    \/ \E t \in Threads, p \in Pools : Get(t, p)
    \/ \E t \in Threads : GetBody(t)
    \/ \E t \in Threads, p \in Pools : PoolRemaining(t, p)
    \/ \E t \in Threads, a \in DOMAIN mem : DropBuf(t, a)
    \/ \E t \in Threads : DropLock(t)
    \/ \E t \in Threads : DropBody(t)

SpecPools == InitPools /\ [][NextPools]_vars

\* --------------------------------------- specification of two runs side by side
\* Two runs of one program are laid side by side, run r in pool r of
\* Pool::new(c, 1). In both the only slot was used by a previous holder,
\* dropped, and checked out again by get(); the runs differ in the bytes the
\* previous holder left in the slot. From there every call is made in both
\* runs with the same arguments.
Run1 == <<1, 1>>

Run2 == <<2, 1>>

\* What a previous holder can leave in a slot of c bytes.
StaleFills(c) ==
    {[i \in 1 .. c |-> v] : v \in Bytes \cup {Uninit}} \cup {[i \in 1 .. c |-> i % 2]}

InitRuns ==
    \E c \in {CapacityAlign * u : u \in 1 .. MaxCapUnits} :
    \E d1 \in StaleFills(c), d2 \in StaleFills(c) :
        /\ inner = [p \in TwoPools |-> PoolPop(PoolNew(c, 1))]
        /\ ptrs = [p \in TwoPools |-> [o \in 0 .. 0 |-> <<p, o + 1>>]]
        /\ mem = [a \in HeapAddrs \cup {Run1, Run2} |->
                    IF a = Run1 THEN [PoolSlot(1, c) EXCEPT !.data = d1]
                    ELSE IF a = Run2 THEN [PoolSlot(2, c) EXCEPT !.data = d2]
                    ELSE NoBuf]
        /\ held = [a \in HeapAddrs \cup {Run1, Run2} |-> IF a[1] # 0 THEN 1 ELSE 0]
        /\ mutex = [p \in TwoPools |-> 0]
        /\ deallocs = [p \in TwoPools |-> 0]
        /\ handle = [p \in TwoPools |-> TRUE]
        /\ pc = [t \in Threads |-> "idle"]
        /\ targ = [t \in Threads |-> <<0, 0>>]
        /\ uaf = FALSE
        /\ last = Call("get", Run1, "ok", 1, 0)
        /\ get_calls = [p \in TwoPools |-> 2]
        /\ any_release = [p \in TwoPools |-> TRUE]
        /\ at_drop = [p \in TwoPools |-> -1]
        /\ lib = NoLib

\* The same call in both runs; last records the call of the first run.
RunsStep(b1, b2, call) ==
    /\ mem' = [mem EXCEPT ![Run1] = b1, ![Run2] = b2]
    /\ last' = call
    /\ UNCHANGED <<poolVars, held, pc, targ, uaf, lib>>

RunsAppend(s) ==
    LET r1 == append(mem[Run1], s)
        r2 == append(mem[Run2], s)
    IN  RunsStep(r1.buf, r2.buf,
                 CallArg("append", Run1, IF r1.ret THEN "true" ELSE "false",
                         len(mem[Run1]), Len(s), s))

RunsRepeat(num, val) ==
    LET r1 == repeat(mem[Run1], num, val)
        r2 == repeat(mem[Run2], num, val)
    IN  RunsStep(r1.buf, r2.buf,
                 CallArg("repeat", Run1, IF r1.ret THEN "true" ELSE "false",
                         len(mem[Run1]), num, <<val>>))

RunsWrite(s) ==
    LET r1 == write(mem[Run1], s)
        r2 == write(mem[Run2], s)
    IN  RunsStep(r1.buf, r2.buf,
                 CallArg("write", Run1, r1.ret[1], len(mem[Run1]),
                         IF r1.ret[1] = "Ok" THEN r1.ret[2] ELSE 0, s))

RunsResize(new_size, val) ==
    LET after(b) == IF ResizeOk(b, new_size) THEN resize(b, new_size, val) ELSE b
    IN  RunsStep(after(mem[Run1]), after(mem[Run2]),
                 CallArg("resize", Run1,
                         IF ResizeOk(mem[Run1], new_size) THEN "ok" ELSE "panic",
                         len(mem[Run1]), new_size, <<val>>))

RunsClearAndResize(new_size, val) ==
    LET after(b) == IF ClearAndResizeOk(b, new_size)
                    THEN clear_and_resize(b, new_size, val) ELSE b
    IN  RunsStep(after(mem[Run1]), after(mem[Run2]),
                 CallArg("clear_and_resize", Run1,
                         IF ClearAndResizeOk(mem[Run1], new_size) THEN "ok" ELSE "panic",
                         len(mem[Run1]), new_size, <<val>>))

RunsClear ==
    RunsStep(clear(mem[Run1]), clear(mem[Run2]),
             Call("clear", Run1, "ok", len(mem[Run1]), 0))

RunsSlices == {<<1, 0, 1>>}

RunsSizes(c) == {0, c \div 2, c, c + 1}

NextRuns ==
    \/ \E s \in RunsSlices : RunsAppend(s)
    \/ \E n \in RunsSizes(capacity(mem[Run1])) : RunsRepeat(n, 0)
    \/ \E s \in RunsSlices : RunsWrite(s)
    \/ \E n \in RunsSizes(capacity(mem[Run1])), v \in Bytes : RunsResize(n, v)
    \/ \E n \in RunsSizes(capacity(mem[Run1])) : RunsClearAndResize(n, 1)
    \/ RunsClear

SpecRuns == InitRuns /\ [][NextRuns]_vars

\* ------------------------------------------------ the other types of the crate
\* Their specifications leave the allocator in the state before any
\* constructor was called.
poolWorld == <<mem, inner, ptrs, mutex, deallocs, handle, held, pc, targ, uaf,
               get_calls, any_release, at_drop>>

NoPool ==
    /\ inner = << >>
    /\ ptrs = << >>
    /\ mutex = << >>
    /\ deallocs = << >>
    /\ handle = << >>
    /\ get_calls = << >>
    /\ any_release = << >>
    /\ at_drop = << >>
    /\ mem = [a \in HeapAddrs |-> NoBuf]
    /\ held = [a \in HeapAddrs |-> 0]
    /\ pc = [t \in Threads |-> "idle"]
    /\ targ = [t \in Threads |-> <<0, 0>>]
    /\ uaf = FALSE

\* The record of a call on the value in lib.
LibCall(op, ret, old, n, arg) == CallArg(op, <<0, 0>>, ret, old, n, arg)

\* ----------------------------------------------------------- ArrayVec<T, C>
\* s is the length, a the array of C cells (MaybeUninit<T>), indexed from 0.
ArrayVec_new ==
    [kind |-> "ArrayVec", s |-> 0, a |-> [i \in 0 .. ArrayVecCapacity - 1 |-> Uninit]]

ArrayVec_push(v, x) ==
    LET i == v.s
    IN  IF i < ArrayVecCapacity
        THEN [ret |-> "ok", vec |-> [v EXCEPT !.a[i] = x, !.s = i + 1]]
        ELSE [ret |-> "panic", vec |-> v]

ArrayVec_try_push_Grow(v, x) ==
    IF v.s < ArrayVecCapacity
    THEN LET i == v.s
         IN  [ret |-> <<"Ok">>, vec |-> [v EXCEPT !.a[i] = x, !.s = i + 1]]
    ELSE [ret |-> <<"Err", x>>, vec |-> [v EXCEPT !.s = v.s + 1]]

ArrayVec_try_push(v, x) ==
    IF v.s < ArrayVecCapacity
    THEN LET i == v.s
         IN  [ret |-> <<"Ok">>, vec |-> [v EXCEPT !.a[i] = x, !.s = i + 1]]
    ELSE [ret |-> <<"Err", x>>, vec |-> v]

ArrayVec_len(v) == v.s

ArrayVec_is_empty(v) == v.s = 0

ArrayVec_first(v) == IF v.s # 0 THEN <<"Some", v.a[0]>> ELSE <<"None">>

ArrayVec_last(v) == IF v.s # 0 THEN <<"Some", v.a[v.s - 1]>> ELSE <<"None">>

ArrayVec_pop_First(v) ==
    IF v.s > 0
    THEN [ret |-> <<"Some", v.a[0]>>, vec |-> [v EXCEPT !.s = v.s - 1]]
    ELSE [ret |-> <<"None">>, vec |-> v]

ArrayVec_pop(v) ==
    IF v.s > 0
    THEN LET i == v.s - 1
         IN  [ret |-> <<"Some", v.a[i]>>, vec |-> [v EXCEPT !.s = i]]
    ELSE [ret |-> <<"None">>, vec |-> v]

\* T is usize here, which needs no drop: the cells keep their bytes.
ArrayVec_clear(v) == [v EXCEPT !.s = 0]

\* The value an Option or Result carries, 0 if none.
Carried(r) == IF Len(r) > 1 THEN r[2] ELSE 0

Elems == {1, 2}

InitArrayVec ==
    /\ NoPool
    /\ last = NoCall
    /\ lib = ArrayVec_new

AvPush(x) ==
    LET r == ArrayVec_push(lib, x)
    IN  /\ lib' = r.vec
        /\ last' = LibCall("ArrayVec::push", r.ret, lib.s, 0, <<x>>)
        /\ UNCHANGED poolWorld

AvTryPush(x) ==
    LET r == ArrayVec_try_push(lib, x)
    IN  /\ lib' = r.vec
        /\ last' = LibCall("ArrayVec::try_push", r.ret[1], lib.s, Carried(r.ret), <<x>>)
        /\ UNCHANGED poolWorld

AvPop ==
    LET r == ArrayVec_pop(lib)
    IN  /\ lib' = r.vec
        /\ last' = LibCall("ArrayVec::pop", r.ret[1], lib.s, Carried(r.ret), << >>)
        /\ UNCHANGED poolWorld

AvFirst ==
    /\ last' = LibCall("ArrayVec::first", ArrayVec_first(lib)[1], lib.s,
                       Carried(ArrayVec_first(lib)), << >>)
    /\ UNCHANGED <<lib, poolWorld>>

AvLast ==
    /\ last' = LibCall("ArrayVec::last", ArrayVec_last(lib)[1], lib.s,
                       Carried(ArrayVec_last(lib)), << >>)
    /\ UNCHANGED <<lib, poolWorld>>

AvLen ==
    /\ last' = LibCall("ArrayVec::len", IF ArrayVec_is_empty(lib) THEN "empty" ELSE "ok",
                       lib.s, ArrayVec_len(lib), << >>)
    /\ UNCHANGED <<lib, poolWorld>>

AvClear ==
    /\ lib' = ArrayVec_clear(lib)
    /\ last' = LibCall("ArrayVec::clear", "ok", lib.s, 0, << >>)
    /\ UNCHANGED poolWorld

NextArrayVec ==
    \/ \E x \in Elems : AvPush(x)
    \/ \E x \in Elems : AvTryPush(x)
    \/ AvPop
    \/ AvFirst
    \/ AvLast
    \/ AvLen
    \/ AvClear

SpecArrayVec == InitArrayVec /\ [][NextArrayVec]_vars

\* ------------------------------------------------------------------ varint
\* A u64 is held as its ten base-128 digits, least significant first; the
\* tenth digit is bit 63 alone. Shifts by multiples of 7 move whole digits.
VARINT_MAX_SIZE_BYTES == 10

U64(ds) == [i \in 1 .. VARINT_MAX_SIZE_BYTES |-> IF i <= Len(ds) THEN ds[i] ELSE 0]

\* v as u8: the low eight bits
AsU8(v) == v[1] + 128 * (v[2] % 2)

\* v > 0x7f
Above7f(v) == \E i \in 2 .. VARINT_MAX_SIZE_BYTES : v[i] # 0

\* v.wrapping_shr(7)
Shr7(v) == [i \in 1 .. VARINT_MAX_SIZE_BYTES |-> IF i < VARINT_MAX_SIZE_BYTES THEN v[i + 1] ELSE 0]

\* x | y on bytes
RECURSIVE ByteOr(_, _)
ByteOr(x, y) ==
    IF x = 0 THEN y
    ELSE IF y = 0 THEN x
    ELSE (IF x % 2 = 1 \/ y % 2 = 1 THEN 1 ELSE 0) + 2 * ByteOr(x \div 2, y \div 2)

ShlOr_NoShift(v, x, pos) == [v EXCEPT ![1] = ByteOr(@, x)]

\* v | (x as u64).wrapping_shl(pos) for x <= 0x7f: the shift is pos % 64,
\* which splits x over the base-128 digits q + 1 and q + 2 of v; digit 10
\* holds bit 63 alone and what lies above it is shifted out.
ShlOr(v, x, pos) ==
    LET s == pos % 64
        q == s \div 7
        r == s % 7
        low == (x % (2 ^ (7 - r))) * (2 ^ r)
        high == x \div (2 ^ (7 - r))
        Kept(k, d) == IF k = VARINT_MAX_SIZE_BYTES THEN d % 2 ELSE d
    IN  [k \in 1 .. VARINT_MAX_SIZE_BYTES |->
            IF k = q + 1 THEN ByteOr(v[k], Kept(k, low))
            ELSE IF k = q + 2 THEN ByteOr(v[k], Kept(k, high))
            ELSE v[k]]

\* encode: the bytes b[0 .. i]
RECURSIVE varint_encode(_)
varint_encode(v) ==
    IF Above7f(v)
    THEN <<AsU8(v) % 128>> \o varint_encode(Shr7(v))
    ELSE <<ByteOr(AsU8(v), 128)>>

\* write: w.write_all(&b[0..i]) on the Vec<u8> w
varint_write(w, v) == [ret |-> "Ok", w |-> w \o varint_encode(v)]

RECURSIVE ReadLoop(_, _, _, _)
\* The loop of decode from index i (counted from 0) with v and pos.
RECURSIVE DecodeLoop(_, _, _, _)
DecodeLoop(b, i, v, pos) ==
    IF i < Len(b) /\ i < VARINT_MAX_SIZE_BYTES
    THEN LET byte == b[i + 1]
         IN  IF byte <= 127
             THEN DecodeLoop(b, i + 1, ShlOr(v, byte, pos), pos + 7)
             ELSE <<"Some", ShlOr(v, byte % 128, pos), i + 1>>
    ELSE <<"None">>

varint_decode_NoLimit(b) ==
    LET r == ReadLoop(b, 0, U64(<< >>), 0)
    IN  IF r[1] = "Ok" THEN <<"Some", r[2], r[3]>> ELSE <<"None">>

varint_decode(b) == DecodeLoop(b, 0, U64(<< >>), 0)

\* ------------------------------------ specification of decode on any bytes
\* The slice handed to decode and read: n bytes without the high bit, then
\* nothing, or a byte with the high bit, or such a byte and one byte more.
DecodeMaxLead == 12

DecodeInputs ==
    LET lead == {[i \in 1 .. n |-> c] : n \in 0 .. DecodeMaxLead, c \in {0, 1, 127}}
        term == {<<d>> : d \in {128, 129, 255}}
        more == {<<e>> : e \in {0, 127, 128}}
    IN  lead \cup {l \o t : l \in lead, t \in term}
             \cup {l \o t \o m : l \in lead, t \in term, m \in more}

\* The loop of read on the byte reader r: read_exact fails at its end.
ReadLoop(r, i, v, pos) ==
    IF i >= Len(r) THEN <<"Err">>
    ELSE LET byte == r[i + 1]
         IN  IF byte <= 127
             THEN ReadLoop(r, i + 1, ShlOr(v, byte, pos), pos + 7)
             ELSE <<"Ok", ShlOr(v, byte % 128, pos), i + 1>>

varint_read(r) == ReadLoop(r, 0, U64(<< >>), 0)

\* 0; one to nine equal digits; powers of 128 and 2^63; u64::MAX.
VarintValues ==
    {U64(<< >>)}
        \cup {U64([i \in 1 .. n |-> d]) : n \in 1 .. 9, d \in {1, 85, 127}}
        \cup {U64([i \in 1 .. n |-> IF i = n THEN 1 ELSE 0]) : n \in 1 .. 10}
        \cup {[i \in 1 .. 10 |-> IF i = 10 THEN 1 ELSE 127]}

\* t is the Vec<u8> written to, v the value written.
InitVarint ==
    /\ NoPool
    /\ last = NoCall
    /\ lib = [kind |-> "varint", v |-> U64(<< >>), t |-> << >>]

VarintWrite(v) ==
    LET r == varint_write(lib.t, v)
    IN  /\ lib.t = << >>
        /\ lib' = [lib EXCEPT !.t = r.w, !.v = v]
        /\ last' = LibCall("varint::write", r.ret, 0, Len(r.w), v)
        /\ UNCHANGED poolWorld

\* read on a reader over the first k bytes of t
VarintRead(k) ==
    LET r == varint_read(SubSeq(lib.t, 1, k))
    IN  /\ lib.t # << >>
        /\ last' = LibCall("varint::read", r[1], k,
                           IF r[1] = "Ok" THEN r[3] ELSE 0,
                           IF r[1] = "Ok" THEN r[2] ELSE << >>)
        /\ UNCHANGED <<lib, poolWorld>>

\* decode on the first k bytes of t
VarintDecode(k) ==
    LET r == varint_decode(SubSeq(lib.t, 1, k))
    IN  /\ lib.t # << >>
        /\ last' = LibCall("varint::decode", r[1], k,
                           IF r[1] = "Some" THEN r[3] ELSE 0,
                           IF r[1] = "Some" THEN r[2] ELSE << >>)
        /\ UNCHANGED <<lib, poolWorld>>

\* t.clear()
VarintClear ==
    /\ lib.t # << >>
    /\ lib' = [lib EXCEPT !.t = << >>]
    /\ last' = NoCall
    /\ UNCHANGED poolWorld

InitDecode ==
    /\ NoPool
    /\ last = NoCall
    /\ \E t \in DecodeInputs : lib = [kind |-> "varint", v |-> U64(<< >>), t |-> t]

NextDecode ==
    \/ \E k \in 0 .. Len(lib.t) : VarintRead(k)
    \/ \E k \in 0 .. Len(lib.t) : VarintDecode(k)

SpecDecode == InitDecode /\ [][NextDecode]_vars

NextVarint ==
    \/ \E v \in VarintValues : VarintWrite(v)
    \/ \E k \in 0 .. Len(lib.t) : VarintRead(k)
    \/ \E k \in 0 .. Len(lib.t) : VarintDecode(k)
    \/ VarintClear

SpecVarint == InitVarint /\ [][NextVarint]_vars

\* --------------------------------------------------------------- Buffer<L>
\* An integer of N bytes is held as its bytes, least significant first.
Reverse(x) == [i \in 1 .. Len(x) |-> x[Len(x) + 1 - i]]

to_be_bytes_Native(x) == x

to_be_bytes(x) == Reverse(x)

from_be_bytes(bytes) == Reverse(bytes)

\* Buffer(usize, [u8; L]): len is field 0, data field 1, indexed from 0.
Buffer_new == [kind |-> "Buffer", len |-> 0, data |-> [i \in 0 .. BufferL - 1 |-> 0],
               cursor |-> 0, first |-> << >>]

\* append_u8 / append_u16 / append_u32 / append_u64 for x of 1 / 2 / 4 / 8 bytes
Buffer_append(b, x) ==
    LET i == to_be_bytes(x)
        ptr == b.len
        end == ptr + Len(x)
    IN  IF end <= BufferL
        THEN [ret |-> "Ok",
              buf |-> [b EXCEPT !.len = end,
                                !.data = [j \in 0 .. BufferL - 1 |->
                                            IF j >= ptr /\ j < end THEN i[j - ptr + 1]
                                            ELSE b.data[j]]]]
        ELSE [ret |-> "Err", buf |-> b]

\* read_u8 / read_u16 / read_u32 / read_u64 for n = 1 / 2 / 4 / 8 at *cursor;
\* the debug_assert!(end <= L) panics in a debug build only.
Buffer_read(b, cur, n, build) ==
    LET ptr == cur
        end == ptr + n
    IN  IF build = "debug" /\ end > BufferL
        THEN [ret |-> "panic", val |-> << >>, cursor |-> cur]
        ELSE IF end <= b.len
        THEN [ret |-> "Ok",
              val |-> from_be_bytes([j \in 1 .. n |-> b.data[ptr + j - 1]]),
              cursor |-> end]
        ELSE [ret |-> "Err", val |-> << >>, cursor |-> cur]

Buffer_clear(b) ==
    [b EXCEPT !.data = [j \in 0 .. BufferL - 1 |-> IF j < b.len THEN 0 ELSE b.data[j]],
              !.len = 0]

Buffer_len(b) == b.len

Buffer_is_empty(b) == b.len = 0

\* 128 as u8; 1234 as u16, u32 and u64; 0x04030201 and 0x0807060504030201.
BufferValues ==
    {<<128>>, <<210, 4>>, <<210, 4, 0, 0>>, <<1, 2, 3, 4>>,
     <<210, 4, 0, 0, 0, 0, 0, 0>>, <<1, 2, 3, 4, 5, 6, 7, 8>>}

Widths == {1, 2, 4, 8}

\* cursor is the caller's usize passed as &mut; first is the value whose
\* append made the buffer non-empty.
InitBuffer ==
    /\ NoPool
    /\ last = NoCall
    /\ lib = Buffer_new

BufferAppend(x) ==
    LET r == Buffer_append(lib, x)
    IN  /\ lib' = [r.buf EXCEPT !.first = IF lib.len = 0 /\ r.ret = "Ok" THEN x ELSE @]
        /\ last' = LibCall("Buffer::append", r.ret, lib.len, Len(x), x)
        /\ UNCHANGED poolWorld

BufferRead(n, build) ==
    LET r == Buffer_read(lib, lib.cursor, n, build)
    IN  /\ lib' = [lib EXCEPT !.cursor = r.cursor]
        /\ last' = LibCall("Buffer::read", r.ret, lib.cursor, n, r.val)
        /\ UNCHANGED poolWorld

\* A fresh cursor: &mut 0
BufferCursor0 ==
    /\ lib.cursor # 0
    /\ lib' = [lib EXCEPT !.cursor = 0]
    /\ last' = NoCall
    /\ UNCHANGED poolWorld

BufferClear ==
    /\ lib' = [Buffer_clear(lib) EXCEPT !.first = << >>]
    /\ last' = LibCall("Buffer::clear", "ok", lib.len, 0, << >>)
    /\ UNCHANGED poolWorld

BufferLen ==
    /\ last' = LibCall("Buffer::len", IF Buffer_is_empty(lib) THEN "empty" ELSE "nonempty",
                       lib.len, Buffer_len(lib), << >>)
    /\ UNCHANGED <<lib, poolWorld>>

NextBuffer ==
    \/ \E x \in BufferValues : BufferAppend(x)
    \/ \E n \in Widths : \E build \in {"debug", "release"} : BufferRead(n, build)
    \/ BufferCursor0
    \/ BufferClear
    \/ BufferLen

SpecBuffer == InitBuffer /\ [][NextBuffer]_vars

\* -------------------------------------------------------------- OnceArc<T>
\* Pointers are 0 (null) or the address of an Arc's value. fast_ptr is a
\* plain field written with write_volatile through &self and read without
\* synchronisation; ptr is the AtomicPtr.
Null == 0

Objs == {1, 2}

OnceArc_new ==
    [kind |-> "OnceArc", fast_ptr |-> Null, ptr |-> Null,
     pc |-> [t \in Threads |-> "idle"], obj |-> [t \in Threads |-> Null],
     installs |-> 0, first |-> Null, returned |-> FALSE]

compare_exchange_Swap(current, expected, new) == [ok |-> TRUE, val |-> new]

\* AtomicPtr::compare_exchange: success and the value left in the atomic
compare_exchange(current, expected, new) ==
    IF current = expected THEN [ok |-> TRUE, val |-> new]
    ELSE [ok |-> FALSE, val |-> current]

\* What the unsynchronised read of fast_ptr can give: the value last written
\* or the null it held before.
FastReads(f) == {Null, f}

load_slow_NoFallback(p) == <<"None">>

\* The else branch of load: the pointer read from the atomic
load_slow(p) == IF p = Null THEN <<"None">> ELSE <<"Some", p>>

InitOnceArc ==
    /\ NoPool
    /\ last = NoCall
    /\ lib = OnceArc_new

\* init_once up to the compare_exchange; the else branch panics.
InitOnceCas(t, obj) ==
    LET r == compare_exchange(lib.ptr, Null, obj)
    IN  /\ lib.pc[t] = "idle"
        /\ IF r.ok
           THEN /\ lib' = [lib EXCEPT !.ptr = r.val, !.pc[t] = "init_write",
                                      !.obj[t] = obj, !.installs = @ + 1,
                                      !.first = IF lib.installs = 0 THEN obj ELSE @]
                /\ last' = NoCall
           ELSE /\ lib' = [lib EXCEPT !.ptr = r.val]
                /\ last' = LibCall("OnceArc::init_once", "panic", t, obj, << >>)
        /\ UNCHANGED poolWorld

\* write_volatile(&self.fast_ptr, obj), and the return
InitOnceWrite(t) ==
    /\ lib.pc[t] = "init_write"
    /\ lib' = [lib EXCEPT !.fast_ptr = lib.obj[t], !.pc[t] = "idle",
                          !.obj[t] = Null, !.returned = TRUE]
    /\ last' = LibCall("OnceArc::init_once", "ok", t, lib.obj[t], << >>)
    /\ UNCHANGED poolWorld

\* load: the test of fast_ptr, which read f
LoadFast(t, f) ==
    /\ lib.pc[t] = "idle"
    /\ f \in FastReads(lib.fast_ptr)
    /\ IF f # Null
       THEN /\ last' = LibCall("OnceArc::load", "Some", t, f, << >>)
            /\ lib' = lib
       ELSE /\ last' = NoCall
            /\ lib' = [lib EXCEPT !.pc[t] = "load_slow"]
    /\ UNCHANGED poolWorld

\* load: self.ptr.load(Acquire) and the result
LoadSlow(t) ==
    LET r == load_slow(lib.ptr)
    IN  /\ lib.pc[t] = "load_slow"
        /\ lib' = [lib EXCEPT !.pc[t] = "idle"]
        /\ last' = LibCall("OnceArc::load", r[1], t, Carried(r), << >>)
        /\ UNCHANGED poolWorld

\* load_wait: the test of fast_ptr, which read f
LoadWaitFast(t, f) ==
    /\ lib.pc[t] = "idle"
    /\ f \in FastReads(lib.fast_ptr)
    /\ IF f # Null
       THEN /\ last' = LibCall("OnceArc::load_wait", "ref", t, f, << >>)
            /\ lib' = lib
       ELSE /\ last' = NoCall
            /\ lib' = [lib EXCEPT !.pc[t] = "wait_loop"]
    /\ UNCHANGED poolWorld

LoadWaitLoop_Inverted(t) ==
    /\ lib.pc[t] = "wait_loop"
    /\ IF lib.ptr # Null
       THEN /\ last' = NoCall
            /\ lib' = lib
       ELSE /\ last' = LibCall("OnceArc::load_wait", "ref", t, lib.ptr, << >>)
            /\ lib' = [lib EXCEPT !.pc[t] = "idle"]
    /\ UNCHANGED poolWorld

\* load_wait: one turn of the loop, self.ptr.load(Acquire) then sleep or return
LoadWaitLoop(t) ==
    /\ lib.pc[t] = "wait_loop"
    /\ IF lib.ptr = Null
       THEN /\ last' = NoCall
            /\ lib' = lib
       ELSE /\ last' = LibCall("OnceArc::load_wait", "ref", t, lib.ptr, << >>)
            /\ lib' = [lib EXCEPT !.pc[t] = "idle"]
    /\ UNCHANGED poolWorld

NextOnceArc ==
    \/ \E t \in Threads, obj \in Objs : InitOnceCas(t, obj)
    \/ \E t \in Threads, f \in Objs \cup {Null} : LoadWaitFast(t, f)
    \/ \E t \in Threads : LoadWaitLoop(t)
    \/ \E t \in Threads : InitOnceWrite(t)
    \/ \E t \in Threads, f \in Objs \cup {Null} : LoadFast(t, f)
    \/ \E t \in Threads : LoadSlow(t)

SpecOnceArc == InitOnceArc /\ [][NextOnceArc]_vars

\* A thread inside a call runs on: the sleep of load_wait ends and the loop
\* takes its next turn, the write after the compare-exchange and the atomic
\* load of load are reached. No thread has to make a call.
FairnessOnceArc ==
    \A t \in Threads :
        /\ WF_vars(LoadWaitLoop(t))
        /\ WF_vars(InitOnceWrite(t))
        /\ WF_vars(LoadSlow(t))

SpecOnceArcFair == InitOnceArc /\ [][NextOnceArc]_vars /\ FairnessOnceArc

\* ------------------------------------------------------------ properties
pool_capacity(p) == inner[p].pool_end - inner[p].pool_start

SlotAddrs(p) == {a \in DOMAIN mem : a[1] = p}

\* Threads inside the drop of the Buf at a that have not pushed it yet.
Dropping(a) == {t \in Threads : pc[t] \in {"drop_lock", "drop_locked"} /\ targ[t] = a}

\* Offsets below the cursor of pool p that hold the pointer a.
FreeAt(p, a) == {o \in 0 .. cursor(p) - 1 : ptrs[p][o] = a}

RECURSIVE SumOver(_, _)
SumOver(f, S) ==
    IF S = {} THEN 0
    ELSE LET x == CHOOSE y \in S : TRUE IN f[x] + SumOver(f, S \ {x})

\* Pooled buffers of p owned by some Buf value, a Buf being dropped included.
CheckedOut(p) ==
    SumOver(held, SlotAddrs(p)) + SumOver([a \in SlotAddrs(p) |-> Cardinality(Dropping(a))], SlotAddrs(p))

\* C1: a pool made by Pool::new(C, N) has pool_remaining() = N before any
\* get(); after k <= N calls of get() and no drop of a Buf it is N - k; and
\* whenever every checked-out buffer has been dropped it is N again.
C1_PoolAccounting ==
    \A p \in Pools : handle[p] =>
        /\ (get_calls[p] = 0 /\ ~any_release[p]) => pool_remaining(p) = pool_capacity(p)
        /\ (get_calls[p] <= pool_capacity(p) /\ ~any_release[p])
               => pool_remaining(p) = pool_capacity(p) - get_calls[p]
        /\ CheckedOut(p) = 0 => pool_remaining(p) = pool_capacity(p)

\* Every slot of a two-slot pool was taken by get() and dropped again.
C1_Witness ==
    \E p \in Pools :
        /\ handle[p] /\ pool_capacity(p) = 2 /\ get_calls[p] = 2 /\ any_release[p]
        /\ CheckedOut(p) = 0 /\ pool_remaining(p) = 2
        /\ \A a \in SlotAddrs(p) : as_slice(mem[a]) = << >> /\ mem[a].data[1] = 1

\* C2: while the Pool value is alive, slot_count - pool_remaining() is the
\* number of pooled buffers checked out, and 0 <= pool_remaining() <= slot_count.
C2_RemainingCountsCheckedOut ==
    \A p \in Pools : handle[p] =>
        /\ pool_capacity(p) - pool_remaining(p) = CheckedOut(p)
        /\ 0 <= pool_remaining(p)
        /\ pool_remaining(p) <= pool_capacity(p)

\* One slot is out, and a clone of a buffer has just been made.
C2_Witness ==
    \E p \in Pools :
        /\ handle[p] /\ pool_capacity(p) = 2 /\ pool_remaining(p) = 1
        /\ CheckedOut(p) = 1 /\ any_release[p]
        /\ last.op = "clone"

\* C3: get() on a pool with pool_remaining() = 0 returns, without a panic, an
\* unflagged empty buffer of capacity buf_capacity and leaves pool_remaining()
\* at 0; the drop of an unflagged buffer moves no cursor; and
\* pool_remaining() never exceeds the slot count.
C3_FallbackState ==
    /\ \A p \in Pools :
          (last.op = "get" /\ last.old = 0) =>
              /\ last.ret = "ok"
              /\ held[last.addr] = 1
              /\ ~IsPooled(mem[last.addr])
              /\ last.addr[1] = 0
              /\ capacity(mem[last.addr]) = inner[p].buf_capacity
              /\ len(mem[last.addr]) = 0
              /\ pool_remaining(p) = 0
    /\ \A p \in Pools : pool_remaining(p) <= pool_capacity(p)

C3_FallbackDrop ==
    \A a \in DOMAIN mem :
        (held'[a] < held[a] /\ ~IsPooled(mem[a])) =>
            /\ inner' = inner
            /\ ptrs' = ptrs
            /\ mem'[a] = NoBuf

C3_ExhaustionFallback == []C3_FallbackState /\ [][C3_FallbackDrop]_vars

\* get() has just returned a standalone buffer because the pool was empty.
C3_Witness ==
    /\ last.op = "get" /\ last.old = 0 /\ last.addr[1] = 0
    /\ \A p \in Pools : pool_capacity(p) = 2 /\ CheckedOut(p) = 2

\* Threads about to run PoolInner::dealloc on pool p.
Deallocating(p) == {t \in Threads : pc[t] = "dealloc" /\ targ[t][1] = p}

\* C4: the drop of the Pool value while m > 0 pooled buffers are out frees
\* nothing and only sets the dropped flag; as long as a pooled buffer is
\* owned by a Buf (a Buf in its drop included) the allocation of its pool is
\* not deallocated and no call touches deallocated memory.
C4_OutstandingValid ==
    /\ ~uaf
    /\ \A p \in Pools : CheckedOut(p) > 0 => deallocs[p] = 0 /\ Deallocating(p) = {}

C4_DropOnlyFlags ==
    \A p \in Pools :
        (at_drop[p] = -1 /\ at_drop'[p] > 0) =>
            /\ deallocs' = deallocs
            /\ inner' = [inner EXCEPT ![p].pool[2] = TRUE]
            /\ ptrs' = ptrs
            /\ mem' = mem
            /\ held' = held
            /\ \A t \in Threads : pc'[t] # "dealloc"

C4_DeferredTeardownSafe == []C4_OutstandingValid /\ [][C4_DropOnlyFlags]_vars

\* The Pool value was dropped with both slots out, one buffer has been dropped
\* since, and an append on the other has just succeeded.
C4_Witness ==
    \E p \in Pools :
        /\ at_drop[p] = 2 /\ dropped(p) /\ CheckedOut(p) = 1 /\ pool_remaining(p) = 1
        /\ last.op = "append" /\ last.ret = "true" /\ last.addr[1] = p
        /\ len(mem[last.addr]) = capacity(mem[last.addr])

\* C5: after the Pool value was dropped with m > 0 pooled buffers out, no
\* dealloc happens or is pending while the free list is incomplete, and once
\* the last buffer has been pushed the dealloc is pending in, or was done by,
\* the operation that pushed it: exactly one dealloc, by the last drop.
C5_LastDropState ==
    \A p \in Pools : at_drop[p] > 0 =>
        /\ ~PoolIsFull(inner[p]) => deallocs[p] = 0 /\ Deallocating(p) = {}
        /\ PoolIsFull(inner[p]) => deallocs[p] + Cardinality(Deallocating(p)) = 1

C5_LastDropStep ==
    \A p \in Pools : \A t \in Threads :
        (at_drop[p] > 0 /\ pc[t] = "drop_locked" /\ targ[t][1] = p /\ pc'[t] # pc[t]) =>
            /\ PoolIsFull(inner'[p]) => pc'[t] = "dealloc" /\ targ'[t] = <<p, 0>>
            /\ ~PoolIsFull(inner'[p]) => pc'[t] = "idle"

C5_DeferredTeardownCompletes == []C5_LastDropState /\ [][C5_LastDropStep]_vars

\* The Pool value was dropped with two buffers out, both were dropped, and the
\* pool was deallocated.
C5_Witness ==
    \E p \in Pools : at_drop[p] = 2 /\ PoolIsFull(inner[p]) /\ deallocs[p] = 1

\* C6: a Pool value dropped while every slot is in the free list deallocates
\* the pool in that drop.
C6_ImmediateTeardown ==
    \A p \in Pools : at_drop[p] = 0 => deallocs[p] = 1

\* C7: PoolInner::dealloc runs exactly once per pool: never twice, never
\* before the Pool value is dropped and the free list is complete, and it has
\* run once both hold and no operation is in progress.
C7_DeallocExactlyOnce ==
    \A p \in Pools :
        /\ deallocs[p] <= 1
        /\ deallocs[p] = 1 => ~handle[p] /\ dropped(p) /\ PoolIsFull(inner[p])
        /\ (~handle[p] /\ PoolIsFull(inner[p]) /\ \A t \in Threads : pc[t] = "idle")
               => deallocs[p] = 1

\* C8: every slot is either at exactly one offset below the cursor or owned
\* by exactly one Buf (a Buf in its drop included), never both or neither;
\* a slot leaves the free list only by the pop of a get() that hands it out
\* and enters it only by the push of the drop of its Buf.
C8_ExclusiveState ==
    \A p \in Pools : \A a \in SlotAddrs(p) :
        Cardinality(FreeAt(p, a)) + held[a] + Cardinality(Dropping(a)) = 1

C8_SlotStep ==
    \A p \in Pools : \A a \in SlotAddrs(p) :
        /\ (FreeAt(p, a) # {} /\ FreeAt(p, a)' = {}) =>
              /\ held[a] = 0 /\ held'[a] = 1
              /\ \E t \in Threads : pc[t] = "get_locked" /\ pc'[t] = "idle"
        /\ (FreeAt(p, a) = {} /\ FreeAt(p, a)' # {}) =>
              \E t \in Threads : pc[t] = "drop_locked" /\ targ[t] = a /\ pc'[t] # pc[t]
        /\ held'[a] > held[a] => FreeAt(p, a) # {} /\ FreeAt(p, a)' = {}

C8_SlotExclusivity == []C8_ExclusiveState /\ [][C8_SlotStep]_vars

\* One thread is inside get() under the lock while another is in the drop
\* of a pooled buffer, waiting for the lock, and a third buffer is free.
C8_Witness ==
    \E t1, t2 \in Threads :
        /\ pc[t1] = "get_locked" /\ pc[t2] = "drop_lock"
        /\ \E p \in Pools : pool_remaining(p) = 1 /\ pool_capacity(p) = 2

\* C9: the flag write of Pool::drop and the push and test of Buf::drop run
\* with the pool mutex held; no operation touches a pool after its dealloc;
\* at most one operation deallocates a pool.
C9_TeardownRaceFree ==
    /\ ~uaf
    /\ \A t \in Threads :
          pc[t] \in {"get_locked", "pool_drop_locked"} => mutex[targ[t][1]] = t
    /\ \A t \in Threads :
          pc[t] = "drop_locked" => mutex[mem[targ[t]].pool_inner] = t
    /\ \A p \in Pools : deallocs[p] + Cardinality(Deallocating(p)) <= 1

\* Pool::drop holds the lock while the drop of a pooled buffer waits for it.
C9_Witness ==
    \E t1, t2 \in Threads :
        /\ pc[t1] = "pool_drop_locked" /\ pc[t2] = "drop_lock"
        /\ mutex[targ[t1][1]] = t1 /\ targ[t2][1] = targ[t1][1]

\* C10: append(bytes) returns true exactly when len() + bytes.len() <=
\* capacity(), and then the new len() is the old len() plus bytes.len().
C10_AppendIffFits ==
    last.op = "append" =>
        /\ last.ret = "true" <=> last.old + last.n <= capacity(mem[last.addr])
        /\ last.ret = "true" => len(mem[last.addr]) = last.old + last.n

\* An append of two bytes that fills the buffer to its capacity succeeded.
C10_Witness ==
    /\ last.op = "append" /\ last.ret = "true" /\ last.n = 2
    /\ last.old + last.n = capacity(mem[last.addr])
    /\ len(mem[last.addr]) = capacity(mem[last.addr])

\* C11: an append(s) or repeat(num, val) that does not fit (len() plus the
\* size is above capacity()) returns false and leaves the length and every
\* byte of the buffer as they were.
C11_FailedStep ==
    LET a == last'.addr
    IN  (last'.op \in {"append", "repeat"} /\ last'.n > capacity(mem[a]) - len(mem[a])) =>
            /\ last'.ret = "false"
            /\ len(mem'[a]) = len(mem[a])
            /\ mem'[a].data = mem[a].data
            /\ mem' = mem

C11_NoMutationOnFailure == [][C11_FailedStep]_vars

\* A repeat that would have fitted an empty buffer failed on one holding bytes.
C11_Witness ==
    /\ last.op = "repeat" /\ last.ret = "false"
    /\ last.n < capacity(mem[last.addr]) /\ len(mem[last.addr]) > 1
    /\ last.arg = <<1>> /\ as_slice(mem[last.addr])[len(mem[last.addr])] = 0

\* C12: after an append(s) that returned true, as_slice() is the as_slice()
\* from before followed by s.
C12_AppendStep ==
    LET a == last'.addr
    IN  (last'.op = "append" /\ last'.ret = "true") =>
            as_slice(mem'[a]) = as_slice(mem[a]) \o last'.arg

C12_AppendRoundTrip == [][C12_AppendStep]_vars

\* A pooled buffer holding bytes took the slice 0, 1.
C12_Witness ==
    /\ last.op = "append" /\ last.ret = "true" /\ last.arg = <<0, 1>>
    /\ last.old > 0 /\ last.addr[1] # 0
    /\ as_slice(mem[last.addr])[1] = 1

\* C13: every buffer, whether standalone, pooled, fallback or clone, has
\* len() <= capacity() after any sequence of get, clone, append, repeat,
\* write, resize, clear_and_resize and clear, failed and panicking calls
\* included.
C13_CapacityInvariant ==
    \A a \in DOMAIN mem : mem[a] # NoBuf => len(mem[a]) <= capacity(mem[a])

\* A full heap buffer refused a clear_and_resize beyond its capacity.
C13_Witness ==
    /\ last.op = "clear_and_resize" /\ last.ret = "panic" /\ last.addr[1] = 0
    /\ last.n = capacity(mem[last.addr]) + 1
    /\ len(mem[last.addr]) = capacity(mem[last.addr])

\* C14: resize(new_size, fill) with new_size <= capacity() sets len() to
\* new_size, sets the bytes from the old length up to new_size to fill and
\* leaves the bytes below both lengths as they were; a shrink leaves all
\* memory as it was; with new_size > capacity() it panics, changing nothing.
C14_ResizeStep ==
    LET a == last'.addr
        b == mem[a]
        b2 == mem'[a]
        n == last'.n
    IN  last'.op = "resize" =>
            IF n <= capacity(b)
            THEN /\ last'.ret = "ok"
                 /\ len(b2) = n
                 /\ capacity(b2) = capacity(b)
                 /\ \A i \in 1 .. capacity(b) :
                       /\ (i > len(b) /\ i <= n) => b2.data[i] = last'.arg[1]
                       /\ i <= Min(len(b), n) => b2.data[i] = b.data[i]
                 /\ n < len(b) => b2.data = b.data
            ELSE /\ last'.ret = "panic"
                 /\ mem' = mem

C14_Resize == [][C14_ResizeStep]_vars

\* A buffer of four bytes 0 was grown to its capacity with the fill 1.
C14_Witness ==
    /\ last.op = "resize" /\ last.ret = "ok" /\ last.old = 4 /\ last.arg = <<1>>
    /\ as_slice(mem[last.addr]) = <<0, 0, 0, 0, 1, 1, 1, 1>>

\* C15: clear() sets len() to 0 and leaves the capacity, the pooled flag and
\* every data byte of the allocation as they were.
C15_ClearStep ==
    LET a == last'.addr
    IN  last'.op = "clear" =>
            /\ len(mem'[a]) = 0
            /\ capacity(mem'[a]) = capacity(mem[a])
            /\ IsPooled(mem'[a]) = IsPooled(mem[a])
            /\ mem'[a].data = mem[a].data
            /\ mem'[a].pool_inner = mem[a].pool_inner
            /\ \A o \in DOMAIN mem \ {a} : mem'[o] = mem[o]
            /\ UNCHANGED <<poolVars, held>>

C15_ClearOnlyLength == [][C15_ClearStep]_vars

\* A pooled buffer that held two bytes was cleared; the bytes are still there.
C15_Witness ==
    /\ last.op = "clear" /\ last.old = 2 /\ last.addr[1] # 0
    /\ len(mem[last.addr]) = 0
    /\ mem[last.addr].data[1] = 1 /\ mem[last.addr].data[2] = 0

\* C16: clone() of any buffer returns a new standalone buffer, without the
\* pooled flag, of the same capacity() and with as_slice() equal to the whole
\* of the original's; the append inside clone succeeds; no pool's free list
\* or cursor changes.
C16_CloneStep ==
    LET src == last'.arg
        new == last'.addr
    IN  last'.op = "clone" =>
            /\ last'.ret = "true"
            /\ new # src
            /\ mem[new] = NoBuf /\ held[new] = 0 /\ held'[new] = 1
            /\ ~IsPooled(mem'[new])
            /\ mem'[new].pool_inner = 0
            /\ capacity(mem'[new]) = capacity(mem[src])
            /\ as_slice(mem'[new]) = as_slice(mem[src])
            /\ len(mem'[new]) = len(mem[src])
            /\ mem'[src] = mem[src]
            /\ \A p \in Pools : pool_remaining(p)' = pool_remaining(p)
            /\ UNCHANGED <<inner, ptrs, mutex, deallocs, handle>>

MutatingOps == {"append", "repeat", "write", "resize", "clear_and_resize", "clear"}

C17_NeverPushed ==
    \A a \in HeapAddrs :
        /\ Dropping(a) = {}
        /\ \A p \in Pools : FreeAt(p, a) = {}
        /\ mem[a] # NoBuf => ~IsPooled(mem[a])

C17_Step ==
    /\ last'.op = "clone" => last'.addr # last'.arg /\ last'.addr \in HeapAddrs
    /\ last'.op \in MutatingOps =>
            /\ \A o \in DOMAIN mem \ {last'.addr} : mem'[o] = mem[o]
            /\ UNCHANGED <<inner, ptrs>>
    /\ \A a \in HeapAddrs :
            held'[a] < held[a] =>
                /\ UNCHANGED <<inner, ptrs, pc, targ>>
                /\ \A p \in Pools : pool_remaining(p)' = pool_remaining(p)
                /\ \A o \in DOMAIN mem \ {a} : mem'[o] = mem[o]

C17_CloneIndependence == []C17_NeverPushed /\ [][C17_Step]_vars

\* No get() was called since the buffer was checked out, so the heap buffer is
\* its clone; the clone was appended to and now differs from the original.
C17_Witness ==
    \E b \in SlotAddrs(1), c \in HeapAddrs :
        /\ get_calls[1] = 1 /\ held[b] = 1 /\ held[c] = 1
        /\ last.op = "append" /\ last.addr = c /\ last.ret = "true"
        /\ len(mem[b]) = 3 /\ len(mem[c]) = 6

\* C18: Buf::new(c) panics when c is 0, above MAX_CAPACITY or not divisible
\* by 8, and Pool::new(c, n) in the same cases and when n is 0; in every other
\* case the buffers created have capacity() exactly c and length 0.
C18_Invalid(w) == w[1] > 0 \/ w = <<0, 0>> \/ w[2] % 8 # 0

C18_NewStep ==
    LET w == last'.arg
        a == last'.addr
    IN  /\ last'.op = "Buf::new" =>
            IF C18_Invalid(w)
            THEN last'.ret = "panic" /\ UNCHANGED <<mem, held, poolVars>>
            ELSE /\ last'.ret = "ok"
                 /\ mem[a] = NoBuf /\ held'[a] = 1
                 /\ capacity(mem'[a]) = w[2]
                 /\ len(mem'[a]) = 0
                 /\ ~IsPooled(mem'[a])
        /\ last'.op = "Pool::new" =>
            IF C18_Invalid(w) \/ last'.n = 0
            THEN last'.ret = "panic" /\ UNCHANGED <<mem, held, poolVars>>
            ELSE /\ last'.ret = "ok"
                 /\ Pools' = {1}
                 /\ pool_capacity(1)' = last'.n
                 /\ pool_remaining(1)' = last'.n
                 /\ Cardinality(SlotAddrs(1)') = last'.n
                 /\ \A b \in SlotAddrs(1)' :
                        /\ capacity(mem'[b]) = w[2]
                        /\ len(mem'[b]) = 0
                        /\ IsPooled(mem'[b])

C18_InvalidConfigurationFailsFast == [][C18_NewStep]_vars

\* A pool of buffers of capacity 8 was made, and then Buf::new with a
\* capacity above MAX_CAPACITY panicked.
C18_Witness ==
    /\ last.op = "Buf::new" /\ last.ret = "panic" /\ last.arg[1] > 0
    /\ Pools # {}
    /\ \A b \in SlotAddrs(1) : capacity(mem[b]) = CapacityAlign

\* C19: get_with_min_capacity(min) with min above buffer_capacity returns a
\* standalone buffer whose capacity() is exactly min and leaves
\* pool_remaining() as it was. Violated: Buf::new(min) panics for a min that
\* is not divisible by 8.
C19_MinCapacityAbove ==
    (last.op = "get_with_min_capacity" /\ last.n > inner[1].buf_capacity) =>
        /\ last.ret = "ok"
        /\ last.addr \in HeapAddrs
        /\ ~IsPooled(mem[last.addr])
        /\ capacity(mem[last.addr]) = last.n
        /\ pool_remaining(1) = last.old

\* C20: the release of a pooled buffer that finds the free list full (cursor
\* at pool_end) panics at the assertion and leaves the cursor and the pointer
\* array as they were; the cursor never is beyond pool_end.
C20_CursorInRange ==
    \A p \in Pools : cursor(p) <= inner[p].pool_end /\ cursor(p) >= inner[p].pool_start

C20_FullStep ==
    \A t \in Threads :
        LET p == mem[targ[t]].pool_inner
        IN  (pc[t] = "drop_locked" /\ pc'[t] # "drop_locked"
                /\ cursor(p) = inner[p].pool_end) =>
                /\ pc'[t] = "panicked"
                /\ inner' = inner
                /\ ptrs' = ptrs
                /\ mem' = mem

C20_DoubleReturnFailsFast == []C20_CursorInRange /\ [][C20_FullStep]_vars

\* The second drop of a duplicated handle found the free list full and
\* panicked; the list holds every slot once.
C20_Witness ==
    /\ \E t \in Threads : pc[t] = "panicked"
    /\ cursor(1) = inner[1].pool_end
    /\ \A a \in SlotAddrs(1) : Cardinality(FreeAt(1, a)) = 1

\* C21: write(s) returns Ok(s.len()) and has the effect of append(s) exactly
\* when append(s) would return true; otherwise it returns an error and the
\* buffer's length and content are as before; flush() changes nothing.
C21_WriteStep ==
    LET a == last'.addr
        s == last'.arg
        fits == len(mem[a]) + Len(s) <= capacity(mem[a])
    IN  /\ last'.op = "write" =>
            /\ (last'.ret = "Ok") = fits
            /\ (last'.ret = "Ok") = append(mem[a], s).ret
            /\ last'.ret \in {"Ok", "Err"}
            /\ fits => /\ last'.n = Len(s)
                       /\ mem'[a] = append(mem[a], s).buf
                       /\ as_slice(mem'[a]) = as_slice(mem[a]) \o s
            /\ ~fits => mem'[a] = mem[a]
            /\ \A o \in DOMAIN mem \ {a} : mem'[o] = mem[o]
            /\ UNCHANGED <<poolVars, held>>
        /\ last'.op = "flush" =>
            /\ last'.ret = "Ok"
            /\ UNCHANGED <<mem, poolVars, held>>

C21_WriteIsAppend == [][C21_WriteStep]_vars

\* A write of three bytes to a buffer holding six of its eight was refused.
C21_Witness ==
    /\ last.op = "write" /\ last.ret = "Err" /\ last.old = 6
    /\ as_slice(mem[last.addr]) = <<1, 0, 1, 1, 0, 1>>

\* C22: a == b holds exactly when the two buffers have the same length and
\* the same bytes below it, whatever their capacities, their pooled flags and
\* the bytes beyond their lengths.
C22_EqStep ==
    LET x == mem[last'.addr]
        y == mem[last'.arg]
    IN  last'.op = "eq" =>
            /\ (last'.ret = "true") =
                    (x.len = y.len /\ \A i \in 1 .. x.len : x.data[i] = y.data[i])
            /\ last'.ret \in {"true", "false"}
            /\ UNCHANGED <<mem, poolVars, held>>

C22_EqOverContent == [][C22_EqStep]_vars

\* Equal: a pooled buffer and a larger standalone one, both holding 1 0 1,
\* with different bytes beyond the length.
C22_Witness ==
    LET x == mem[last.addr]
        y == mem[last.arg]
    IN  /\ last.op = "eq" /\ last.ret = "true"
        /\ IsPooled(x) /\ ~IsPooled(y)
        /\ capacity(x) # capacity(y)
        /\ as_slice(x) = <<1, 0, 1>>
        /\ x.data[4] # y.data[4]

\* C23: under fair scheduling every started get(), buffer drop and Pool drop
\* returns, and every holder of the mutex releases it, so a caller of get(),
\* pool_remaining() or drop that waits for it gets it; the thread that holds
\* the mutex is inside one critical section and at no lock() call; whenever a
\* call is in progress some call in progress can take a step.
InCall(t) == pc[t] \in {"get_locked", "drop_lock", "drop_locked", "dealloc", "pool_drop_locked"}

C23_NoRelock ==
    /\ \A p \in Pools : mutex[p] \in Threads =>
            /\ pc[mutex[p]] \in {"get_locked", "drop_locked", "pool_drop_locked"}
            /\ pc[mutex[p]] = "get_locked" => targ[mutex[p]] = <<p, 0>>
            /\ \A q \in Pools \ {p} : mutex[q] # mutex[p]
    /\ \A t \in Threads :
            pc[t] \in {"get_locked", "drop_locked", "pool_drop_locked"} =>
                \E p \in Pools : mutex[p] = t
    /\ (\E t \in Threads : InCall(t)) =>
            \E t \in Threads :
                InCall(t) /\ ENABLED (GetBody(t) \/ DropLock(t) \/ DropBody(t)
                                        \/ PoolInnerDealloc(t) \/ PoolDropBody(t))

C24_HeaderAtCreation ==
    \A a \in DOMAIN mem : mem[a] # NoBuf =>
        IF a \in HeapAddrs
        THEN mem[a].cap[1] = 0 /\ mem[a].pool_inner = 0
        ELSE /\ mem[a].cap = <<1, inner[a[1]].buf_capacity>>
             /\ mem[a].pool_inner = a[1]

C24_HeaderStep ==
    \A a \in DOMAIN mem :
        /\ (mem[a] # NoBuf /\ mem'[a] # NoBuf) =>
                /\ mem'[a].cap = mem[a].cap
                /\ mem'[a].pool_inner = mem[a].pool_inner
        /\ held'[a] < held[a] =>
                IF a \in HeapAddrs
                THEN mem'[a] = NoBuf /\ UNCHANGED <<pc, targ, inner, ptrs>>
                ELSE \E t \in Threads :
                        /\ pc[t] = "idle" /\ pc'[t] = "drop_lock" /\ targ'[t] = a
                        /\ mem'[a] # NoBuf

C24_HeaderFixed == []C24_HeaderAtCreation /\ [][C24_HeaderStep]_vars

\* A slot that was returned and checked out again holds six bytes and still
\* carries the flag, next to an unflagged heap buffer.
C24_Witness ==
    \E a \in SlotAddrs(1), h \in HeapAddrs :
        /\ get_calls[1] = 2 /\ any_release[1]
        /\ held[a] = 1 /\ len(mem[a]) = 6 /\ IsPooled(mem[a])
        /\ held[h] = 1 /\ ~IsPooled(mem[h]) /\ len(mem[h]) = 3

\* C25: an ArrayVec is a bounded stack. With its content read as the cells
\* below len(), a push appends, first() and last() give the oldest and the
\* newest element, pop() returns the newest and removes it, returns None
\* exactly on an empty vector, len() is the number of elements, and clear()
\* leaves it empty.
Contents(v) == [i \in 1 .. v.s |-> v.a[i - 1]]

C25_StackStep ==
    LET c == Contents(lib)
        n == Len(c)
    IN  /\ (last'.op = "ArrayVec::push" /\ last'.ret = "ok") =>
                Contents(lib') = Append(c, last'.arg[1])
        /\ last'.op = "ArrayVec::pop" =>
                /\ (last'.ret = "None") = (n = 0)
                /\ last'.ret \in {"None", "Some"}
                /\ n = 0 => lib' = lib
                /\ n > 0 => last'.n = c[n] /\ Contents(lib') = SubSeq(c, 1, n - 1)
        /\ last'.op = "ArrayVec::first" =>
                /\ (last'.ret = "None") = (n = 0)
                /\ n > 0 => last'.ret = "Some" /\ last'.n = c[1]
                /\ lib' = lib
        /\ last'.op = "ArrayVec::last" =>
                /\ (last'.ret = "None") = (n = 0)
                /\ n > 0 => last'.ret = "Some" /\ last'.n = c[n]
                /\ lib' = lib
        /\ last'.op = "ArrayVec::len" => last'.n = n /\ lib' = lib
        /\ last'.op = "ArrayVec::clear" => Contents(lib') = << >>

C25_BoundedStack == [][C25_StackStep]_vars

\* The vector was full with 1 pushed first and 2 pushed last; the pop
\* returned the 2.
C25_Witness ==
    /\ last.op = "ArrayVec::pop" /\ last.ret = "Some" /\ last.n = 2
    /\ last.old = ArrayVecCapacity
    /\ Contents(lib)[1] = 1

\* C26: len() never exceeds C; try_push on a full vector returns Err with the
\* rejected value and push on a full vector panics, both leaving the length
\* and the elements as they were.
C26_LenBounded == lib.s <= ArrayVecCapacity /\ lib.s >= 0

C26_FullStep ==
    /\ (last'.op = "ArrayVec::try_push" /\ lib.s = ArrayVecCapacity) =>
            /\ last'.ret = "Err"
            /\ last'.n = last'.arg[1]
            /\ lib' = lib
    /\ (last'.op = "ArrayVec::try_push" /\ lib.s < ArrayVecCapacity) =>
            last'.ret = "Ok"
    /\ (last'.op = "ArrayVec::push" /\ lib.s = ArrayVecCapacity) =>
            /\ last'.ret = "panic"
            /\ lib' = lib
    /\ (last'.op = "ArrayVec::push" /\ lib.s < ArrayVecCapacity) =>
            last'.ret = "ok"

C26_CapacityCeiling == []C26_LenBounded /\ [][C26_FullStep]_vars

\* A full vector refused the value 2.
C26_Witness ==
    /\ last.op = "ArrayVec::try_push" /\ last.ret = "Err" /\ last.n = 2
    /\ lib.s = ArrayVecCapacity
    /\ \A i \in 0 .. ArrayVecCapacity - 1 : lib.a[i] = 1

\* C27: write emits between 1 and 10 bytes for every u64 value, and read and
\* decode on those bytes return the value and the number of bytes written.
C27_RoundTripStep ==
    /\ last'.op = "varint::write" =>
            /\ last'.ret = "Ok"
            /\ Len(lib'.t) >= 1 /\ Len(lib'.t) <= 10
            /\ \A i \in 1 .. Len(lib'.t) : lib'.t[i] \in 0 .. 255
    /\ (last'.op = "varint::read" /\ last'.old = Len(lib.t)) =>
            /\ last'.ret = "Ok"
            /\ last'.arg = lib.v
            /\ last'.n = Len(lib.t)
    /\ (last'.op = "varint::decode" /\ last'.old = Len(lib.t)) =>
            /\ last'.ret = "Some"
            /\ last'.arg = lib.v
            /\ last'.n = Len(lib.t)

C27_VarintRoundTrip == [][C27_RoundTripStep]_vars

\* u64::MAX was written as ten bytes and read back.
C27_Witness ==
    /\ last.op = "varint::read" /\ last.ret = "Ok" /\ last.n = 10
    /\ last.arg = [i \in 1 .. 10 |-> IF i = 10 THEN 1 ELSE 127]
    /\ lib.t = <<127, 127, 127, 127, 127, 127, 127, 127, 127, 129>>

\* C28: on an empty Buffer<L> with room, append_uN(x) succeeds and raises
\* len() by the width of x; read_uN of the same width with cursor 0 then
\* returns x and advances the cursor by that width; clear() makes len() 0 and
\* is_empty() true.
C28_ReadBack ==
    (last.op = "Buffer::read" /\ last.old = 0 /\ lib.first # << >>
        /\ last.n = Len(lib.first)) =>
            /\ last.ret = "Ok"
            /\ last.arg = lib.first
            /\ lib.cursor = last.n

C28_Step ==
    /\ (last'.op = "Buffer::append" /\ lib.len = 0 /\ last'.n <= BufferL) =>
            /\ last'.ret = "Ok"
            /\ lib'.len = last'.n
            /\ lib'.first = last'.arg
    /\ last'.op = "Buffer::clear" =>
            /\ lib'.len = 0
            /\ \A j \in 0 .. BufferL - 1 : lib'.data[j] = 0 \/ j >= lib.len
    /\ last'.op = "Buffer::len" =>
            /\ last'.n = lib.len
            /\ (last'.ret = "empty") = (lib.len = 0)
            /\ lib' = lib

C28_AppendReadRoundTrip == []C28_ReadBack /\ [][C28_Step]_vars

\* 0x0807060504030201 was appended to the empty buffer, stored most
\* significant byte first, and read back with cursor 0.
C28_Witness ==
    /\ last.op = "Buffer::read" /\ last.ret = "Ok" /\ last.old = 0
    /\ last.arg = <<1, 2, 3, 4, 5, 6, 7, 8>>
    /\ lib.first = last.arg /\ lib.cursor = 8
    /\ lib.data[0] = 8 /\ lib.data[7] = 1

\* C29: at most one init_once installs its value: the first whose
\* compare-exchange finds null; every other call panics; the installed
\* pointer is never replaced.
C29_OneInstall ==
    /\ lib.installs <= 1
    /\ (lib.installs = 0) = (lib.ptr = 0)
    /\ lib.ptr # 0 => lib.ptr = lib.first
    /\ lib.fast_ptr \in {0, lib.first}
    /\ Cardinality({t \in Threads : lib.pc[t] = "init_write"}) <= 1

C29_InitStep ==
    /\ lib.ptr # 0 => lib'.ptr = lib.ptr
    /\ lib.fast_ptr # 0 => lib'.fast_ptr = lib.fast_ptr
    /\ (last'.op = "OnceArc::init_once" /\ last'.ret = "panic") =>
            /\ lib.ptr # 0
            /\ lib' = lib
    /\ (last'.op = "OnceArc::init_once" /\ last'.ret = "ok") =>
            /\ lib.ptr = last'.n /\ lib'.fast_ptr = last'.n
    /\ \A t \in Threads :
            (lib.pc[t] = "idle" /\ lib'.pc[t] = "init_write") =>
                lib.ptr = 0 /\ lib'.ptr = lib'.obj[t]

C29_InitAtMostOnce == []C29_OneInstall /\ [][C29_InitStep]_vars

\* A second init_once panicked while the first was between its
\* compare-exchange and its write of fast_ptr.
C29_Witness ==
    /\ last.op = "OnceArc::init_once" /\ last.ret = "panic" /\ last.n = 2
    /\ \E t \in Threads : lib.pc[t] = "init_write" /\ lib.obj[t] = 1
    /\ lib.ptr = 1 /\ lib.fast_ptr = 0

\* C30: a load that ends while no init_once has succeeded returns None; a
\* load that ends after an init_once has returned gives Some of the
\* installed value; no load ever gives another value.
C30_LoadStep ==
    last'.op = "OnceArc::load" =>
        /\ lib.ptr = 0 => last'.ret = "None"
        /\ lib.returned => last'.ret = "Some" /\ last'.n = lib.first
        /\ last'.ret = "Some" => last'.n = lib.first /\ lib.ptr = lib.first
        /\ last'.ret \in {"Some", "None"}
        /\ lib'.ptr = lib.ptr /\ lib'.fast_ptr = lib.fast_ptr

C30_LoadInstalled == [][C30_LoadStep]_vars

\* After init_once(2) returned, a load read the stale null in fast_ptr and
\* got the value from the atomic pointer.
C30_Witness ==
    /\ last.op = "OnceArc::load" /\ last.ret = "Some" /\ last.n = 2
    /\ lib.returned /\ lib.fast_ptr = 2
    /\ \E t \in Threads : last.old = t /\ lib.pc[t] = "idle"

\* C31: every buffer get() returns has len() 0 and capacity() equal to the
\* pool's buffer capacity, be it a slot never used, a slot handed back with
\* data in it or a fallback allocation; capacity() of a pooled slot is the
\* capacity without the flag bit.
C31_NoFlag ==
    \A a \in DOMAIN mem :
        (a[1] # 0 /\ a[1] \in Pools) =>
            /\ IsPooled(mem[a])
            /\ mem[a].cap = <<1, inner[a[1]].buf_capacity>>
            /\ capacity(mem[a]) = inner[a[1]].buf_capacity

C31_GetStep ==
    \A t \in Threads :
        (pc[t] = "get_locked" /\ pc'[t] = "idle") =>
            LET p == targ[t][1]
                a == last'.addr
            IN  /\ last'.op = "get"
                /\ held'[a] = held[a] + 1
                /\ len(mem'[a]) = 0
                /\ as_slice(mem'[a]) = << >>
                /\ capacity(mem'[a]) = inner[p].buf_capacity
                /\ a[1] # 0 <=> ~PoolIsEmpty(inner[p])
                /\ a[1] # 0 => a[1] = p /\ IsPooled(mem'[a])
                /\ a[1] = 0 => ~IsPooled(mem'[a]) /\ mem[a] = NoBuf

C31_GetEmptyFullCapacity == []C31_NoFlag /\ [][C31_GetStep]_vars

\* get() has just handed out a slot whose previous holder filled it.
C31_Witness ==
    /\ last.op = "get"
    /\ last.addr[1] # 0
    /\ held[last.addr] = 1
    /\ \A i \in 1 .. capacity(mem[last.addr]) : mem[last.addr].data[i] = 1
    /\ len(mem[last.addr]) = 0

\* C32: with two pools alive, the drop of a pooled buffer locks the pool whose
\* arena holds the slot and pushes the slot on that pool's free list:
\* pool_remaining() of that pool grows by 1, the free list and
\* pool_remaining() of the other pool stay as they are, for every thread.
Remaining(pi) == pi.pool[1] - pi.pool_start

C32_OwnSlots ==
    \A p \in Pools :
        \A o \in 0 .. cursor(p) - 1 : ptrs[p][o][1] = p

C32_DropStep ==
    \A t \in Threads :
        LET a == targ[t]
            p == a[1]
        IN  /\ (pc[t] = "idle" /\ pc'[t] = "drop_lock") =>
                /\ targ'[t][1] # 0
                /\ inner' = inner /\ ptrs' = ptrs /\ mutex' = mutex
            /\ (pc[t] = "drop_lock" /\ pc'[t] = "drop_locked") =>
                /\ mutex'[p] = t
                /\ \A q \in Pools \ {p} : mutex'[q] = mutex[q]
                /\ inner' = inner /\ ptrs' = ptrs
            /\ (pc[t] = "drop_locked" /\ pc'[t] # "drop_locked") =>
                /\ pc'[t] = "idle"
                /\ mutex[p] = t /\ mutex'[p] = 0
                /\ Remaining(inner'[p]) = pool_remaining(p) + 1
                /\ ptrs'[p][cursor(p)] = a
                /\ \A o \in 0 .. cursor(p) - 1 : ptrs'[p][o] = ptrs[p][o]
                /\ \A q \in Pools \ {p} :
                        /\ inner'[q] = inner[q]
                        /\ ptrs'[q] = ptrs[q]
                        /\ mutex'[q] = mutex[q]
                        /\ Remaining(inner'[q]) = pool_remaining(q)

C32_DropReturnsToOwnPool == []C32_OwnSlots /\ [][C32_DropStep]_vars

\* Every buffer taken from the second pool is back in it while a buffer of
\* the first pool, which saw no drop yet, is still out.
C32_Witness ==
    /\ Pools = {1, 2}
    /\ get_calls[2] > 0 /\ any_release[2]
    /\ pool_remaining(2) = pool_capacity(2)
    /\ \A o \in 0 .. cursor(2) - 1 : ptrs[2][o][1] = 2
    /\ ~any_release[1] /\ pool_remaining(1) < pool_capacity(1)
    /\ \A t \in Threads : pc[t] = "idle"

\* C33: the free list is a stack. The pointers from pool_start up to the
\* cursor, bottom first, are its content: a drop appends its slot on top and
\* leaves the ones below in place, get() on a non-empty pool returns the top
\* one (the slot returned last) and leaves the ones below in place; on a
\* fresh pool get() returns the last slot of the pointer array.
FreeStack(pi, arr) ==
    [i \in 1 .. (pi.pool[1] - pi.pool_start) |-> arr[pi.pool_start + i - 1]]

C33_LifoStep ==
    \A t \in Threads :
        /\ (pc[t] = "get_locked" /\ pc'[t] = "idle") =>
            LET p == targ[t][1]
                s == FreeStack(inner[p], ptrs[p])
            IN  IF s # << >>
                THEN /\ last'.op = "get" /\ last'.addr = s[Len(s)]
                     /\ FreeStack(inner'[p], ptrs'[p]) = SubSeq(s, 1, Len(s) - 1)
                     /\ get_calls[p] = 0 => last'.addr = ptrs[p][inner[p].pool_end - 1]
                ELSE /\ last'.addr[1] = 0
                     /\ FreeStack(inner'[p], ptrs'[p]) = << >>
        /\ (pc[t] = "drop_locked" /\ pc'[t] # "drop_locked") =>
            LET a == targ[t]
                p == a[1]
            IN  FreeStack(inner'[p], ptrs'[p]) = Append(FreeStack(inner[p], ptrs[p]), a)
        /\ (pc[t] \notin {"get_locked", "drop_locked"}) =>
            \A p \in Pools :
                (pc'[t] # pc[t] /\ p \in DOMAIN inner') =>
                    FreeStack(inner'[p], ptrs'[p]) = FreeStack(inner[p], ptrs[p])

C33_FreeListIsLifo == [][C33_LifoStep]_vars

\* Both slots of a pool were out, the second was dropped before the first,
\* and get() has handed out the first: the one returned last.
C33_Witness ==
    \E p \in Pools :
        /\ pool_capacity(p) = 2
        /\ last.op = "get" /\ last.addr = <<p, 1>>
        /\ FreeStack(inner[p], ptrs[p]) = << <<p, 2>> >>

\* C34: in two runs that differ only in the bytes the previous holder left
\* in the recycled slot, the same calls of append, repeat, write, resize,
\* clear_and_resize and clear give the same len() and the same as_slice(),
\* and every byte that comes into as_slice() is one the call wrote.
C34_SameView ==
    /\ len(mem[Run1]) = len(mem[Run2])
    /\ as_slice(mem[Run1]) = as_slice(mem[Run2])
    /\ capacity(mem[Run1]) = capacity(mem[Run2])

C34_Step ==
    \A i \in 1 .. len(mem'[Run1]) :
        IF i > len(mem[Run1]) \/ (last'.op = "clear_and_resize" /\ last'.ret = "ok")
        THEN /\ mem'[Run1].data[i] \in Bytes
             /\ mem'[Run2].data[i] = mem'[Run1].data[i]
             /\ last'.op \in {"resize", "repeat", "clear_and_resize"}
                    => mem'[Run1].data[i] = last'.arg[1]
             /\ last'.op \in {"append", "write"}
                    => mem'[Run1].data[i] = last'.arg[i - len(mem[Run1])]
        ELSE /\ mem'[Run1].data[i] = mem[Run1].data[i]
             /\ mem'[Run2].data[i] = mem[Run2].data[i]

C34_NoStaleData == []C34_SameView /\ [][C34_Step]_vars

\* The runs hold different bytes from the previous holder; the buffer was
\* filled, shrunk, and resize has just grown it over the part given up, short
\* of the capacity: the bytes past len() still differ between the runs.
C34_Witness ==
    /\ last.op = "resize" /\ last.ret = "ok"
    /\ 0 < last.old /\ last.old < last.n /\ last.n < capacity(mem[Run1])
    /\ len(mem[Run1]) = last.n
    /\ \E i \in 1 .. capacity(mem[Run1]) : mem[Run1].data[i] # mem[Run2].data[i]
    /\ \A i \in 1 .. capacity(mem[Run1]) : mem[Run1].data[i] # Uninit

\* C35: repeat(num, val) returns true if len() + num <= capacity() and false
\* otherwise; when it returns true len() has grown by num, the num new bytes
\* are val and the bytes before them are unchanged.
C35_Fits(b, num) == UsizeIsSmall(num) /\ num[3] <= capacity(b) - len(b)

C35_RepeatStep ==
    last'.op = "repeat" =>
        LET a == last'.addr
            num == SubSeq(last'.arg, 2, 4)
            val == last'.arg[1]
        IN  /\ last'.ret = (IF C35_Fits(mem[a], num) THEN "true" ELSE "false")
            /\ last'.ret = "true" =>
                    /\ len(mem'[a]) = len(mem[a]) + num[3]
                    /\ \A i \in 1 .. Len(mem[a].data) :
                            mem'[a].data[i] =
                                IF i > len(mem[a]) /\ i <= len(mem'[a])
                                THEN val ELSE mem[a].data[i]

C35_RepeatIffFits == [][C35_RepeatStep]_vars

\* The statement of C35 for the calls whose len() + num does not exceed
\* usize::MAX.
C35_NoOverflow ==
    [][(last'.op = "repeat" /\ ~UsizeAdd(Usize(last'.old), SubSeq(last'.arg, 2, 4)).overflow)
            => C35_RepeatStep]_vars

\* C36: decode returns None when none of the first min(len, 10) bytes has
\* its high bit set, the empty slice included; when it returns Some((v, n)),
\* n is between 1 and 10, byte n - 1 is the first with the high bit set and
\* read on the same bytes returns the same v and n.
C36_DecodeStep ==
    last'.op = "varint::decode" =>
        LET b == SubSeq(lib.t, 1, last'.old)
            m == Min(Len(b), VARINT_MAX_SIZE_BYTES)
            n == last'.n
        IN  /\ last'.ret \in {"Some", "None"}
            /\ (\A i \in 1 .. m : b[i] < 128) <=> last'.ret = "None"
            /\ last'.ret = "Some" =>
                    /\ 1 <= n /\ n <= VARINT_MAX_SIZE_BYTES /\ n <= Len(b)
                    /\ b[n] >= 128
                    /\ \A i \in 1 .. n - 1 : b[i] < 128
                    /\ varint_read(b) = <<"Ok", last'.arg, n>>
            /\ lib' = lib

C36_DecodeTerminator == [][C36_DecodeStep]_vars

\* decode returned None on eleven bytes whose only byte with the high bit set
\* is the eleventh, which read accepts.
C36_Witness ==
    /\ last.op = "varint::decode" /\ last.ret = "None" /\ last.old = 11
    /\ \A i \in 1 .. 10 : lib.t[i] < 128
    /\ lib.t[11] >= 128
    /\ varint_read(SubSeq(lib.t, 1, 11))[1] = "Ok"

\* C37: a read_uN at any cursor whose end (cursor plus width) exceeds len()
\* returns OutOfBoundsError, does not panic and leaves the cursor where it
\* was; a read that succeeds advances the cursor by the width.
C37_ReadStep ==
    last'.op = "Buffer::read" =>
        LET end == lib.cursor + last'.n
        IN  /\ end > lib.len => last'.ret = "Err" /\ lib'.cursor = lib.cursor
            /\ last'.ret = "Ok" => lib'.cursor = lib.cursor + last'.n
            /\ last'.ret \in {"Ok", "Err"}

C37_BoundsCheckedReads == [][C37_ReadStep]_vars

\* What holds of the reads in both builds: the only panic is the
\* debug_assert on an end beyond L; every other read is as C37 states.
C37_ExceptBeyondL ==
    [][last'.op = "Buffer::read" =>
        LET end == lib.cursor + last'.n
        IN  /\ last'.ret = "panic" => end > BufferL /\ lib'.cursor = lib.cursor
            /\ last'.ret # "panic" => C37_ReadStep
            /\ end <= BufferL => last'.ret # "panic"]_vars

\* C38: load_wait returns only when an init_once has succeeded, and then a
\* reference to the installed value; if some init_once completes, every
\* load_wait call that is waiting returns.
C38_ReturnStep ==
    /\ last'.op = "OnceArc::load_wait" =>
            /\ lib.ptr # 0
            /\ last'.ret = "ref" /\ last'.n = lib.first /\ last'.n # 0
    /\ \A t \in Threads :
            (lib.pc[t] = "wait_loop" /\ lib.ptr = 0) =>
                lib'.pc[t] = "wait_loop" \/ lib'.ptr # 0

C38_Waiting(t) == lib.pc[t] = "wait_loop"

C38_LoadWaitReturns ==
    /\ [][C38_ReturnStep]_vars
    /\ \A t \in Threads : (<>lib.returned) => (C38_Waiting(t) ~> ~C38_Waiting(t))

\* load_wait has returned through the atomic pointer while the init_once
\* that installed the value had not written fast_ptr yet.
C38_Witness ==
    /\ last.op = "OnceArc::load_wait" /\ last.ret = "ref" /\ last.n = lib.ptr
    /\ lib.fast_ptr = 0 /\ ~lib.returned
    /\ \E t \in Threads : lib.pc[t] = "init_write"

====
